---- MODULE Spec2Model ----
(***************************************************************************)
(* KetoLens food resolution and scoring pipeline.                          *)
(*                                                                         *)
(* Three state machines share this module:                                 *)
(*   SpecRetry   withRetry (src/utils/retry.ts)                            *)
(*   SpecLookup  lookupProduct over the shadow DB and the product          *)
(*               directory (services/barcodeService, shadowDbService)      *)
(*   SpecApp     the App handlers that present results (App.tsx,           *)
(*               screens/ResultScreen.tsx)                                 *)
(***************************************************************************)
EXTENDS Integers, Sequences, FiniteSets, TLC

VARIABLES
    retry,              \* one invocation of withRetry: its options, its operation and its locals
    products,           \* table products_shadow, in insertion order
    analyses,           \* table keto_analysis, in insertion order
    statUpdates,        \* usage-statistics updates issued and not yet settled
    calls,              \* the invocations of lookupProduct
    lastReturn,         \* the invocation that finished last, with its locals
    transientFailures,  \* how many of the next directory fetches are rejected
    currentScreen,      \* App state: the screen shown
    scanType,           \* App state: 'meal' or 'product'
    analysisResult,     \* App state: the vision result, <<>> for null
    productResult,      \* App state: the product result, <<>> for null
    isAnalyzing,        \* App state: the loader replaces the screens
    lastImage,          \* App state
    scanCount,          \* App state
    resultScreen,       \* the state of the mounted ResultScreen, <<>> when unmounted
    tasks,              \* handlers suspended at an await
    lastEvent,          \* what the last step of App completed
    scoring,            \* calculateProductScore: an ingredient list and what was computed from it
    offLookup,          \* lookupProductFromAPI: a barcode, the directory's answer and the result
    vision,             \* analyzePhoto and the analyze-food function: the back end's answers and what each returned
    review,             \* the mounted ResultScreen with its CorrectionSheet and the handleCorrections call in flight
    insertsIssued,      \* the inserts issued to the corrections table, in order
    meal,               \* calculateMealScore: its arguments and what it returned
    shadowStats,        \* lookupByBarcode on stored records: the rows, the usage-statistics updates in flight and the hits so far
    quota               \* the daily scan quota: the session, the date, AsyncStorage and user_scan_usage, the screen and the incrementScanCount calls in flight

retryVars == <<retry>>

lookupVars == <<products, analyses, statUpdates, calls, lastReturn, transientFailures>>

appVars ==
    <<currentScreen, scanType, analysisResult, productResult, isAnalyzing,
      lastImage, scanCount, resultScreen, tasks, lastEvent>>

scoringVars == <<scoring>>

offLookupVars == <<offLookup>>

visionVars == <<vision>>

correctionVars == <<review, insertsIssued>>

mealVars == <<meal>>

statsVars == <<shadowStats>>

quotaVars == <<quota>>

vars == <<retryVars, lookupVars, appVars, scoringVars, offLookupVars, visionVars, correctionVars, mealVars, statsVars, quotaVars>>

\* What the steps of each state machine leave alone
nonRetryVars == <<lookupVars, appVars, scoringVars, offLookupVars, visionVars, correctionVars, mealVars, statsVars, quotaVars>>

nonLookupVars == <<retryVars, appVars, scoringVars, offLookupVars, visionVars, correctionVars, mealVars, statsVars, quotaVars>>

nonAppVars == <<retryVars, lookupVars, scoringVars, offLookupVars, visionVars, correctionVars, mealVars, statsVars, quotaVars>>

nonScoringVars == <<retryVars, lookupVars, appVars, offLookupVars, visionVars, correctionVars, mealVars, statsVars, quotaVars>>

nonOffLookupVars == <<retryVars, lookupVars, appVars, scoringVars, visionVars, correctionVars, mealVars, statsVars, quotaVars>>

nonVisionVars == <<retryVars, lookupVars, appVars, scoringVars, offLookupVars, correctionVars, mealVars, statsVars, quotaVars>>

nonCorrectionsVars == <<retryVars, lookupVars, appVars, scoringVars, offLookupVars, visionVars, mealVars, statsVars, quotaVars>>

nonMealVars == <<retryVars, lookupVars, appVars, scoringVars, offLookupVars, visionVars, correctionVars, statsVars, quotaVars>>

nonStatsVars == <<retryVars, lookupVars, appVars, scoringVars, offLookupVars, visionVars, correctionVars, mealVars, quotaVars>>

nonQuotaVars == <<retryVars, lookupVars, appVars, scoringVars, offLookupVars, visionVars, correctionVars, mealVars, statsVars>>

(***************************************************************************)
(* Retry Executor: withRetry                                               *)
(***************************************************************************)

\* Bounds of the explored invocations.
MaxRetriesBound == 4
MaxFailures == 4

\* DEFAULT_OPTIONS
DefaultMaxRetries == 3
DefaultDelayMs == 1000

\* An operation that never succeeds is written as a failure count no run reaches.
AlwaysFails == MaxRetriesBound + MaxFailures + 1

SuccessValue == "value"

\* let lastError = new Error('Unknown error')
UnknownError == [isError |-> TRUE, msg |-> 0]

\* What the n-th invocation of fn throws: an Error instance or a raw value,
\* told apart by the message n.
Thrown(op, n) == [isError |-> op.throwsError, msg |-> n]

\* fn() fails on its first op.failures invocations and succeeds afterwards.
FnFails(op, n) == n <= op.failures

\* error instanceof Error ? error : new Error(String(error))
ToError(e) == IF e.isError THEN e ELSE [isError |-> TRUE, msg |-> e.msg]

LoopContinuesOffByOne(attempt, maxRetries) == attempt < maxRetries

\* for (...; attempt <= maxRetries; ...)
LoopContinues(attempt, maxRetries) == attempt <= maxRetries

IsFinalAttemptOneEarly(attempt, maxRetries) == attempt >= maxRetries - 1

\* if (attempt === maxRetries) break
IsFinalAttempt(attempt, maxRetries) == attempt = maxRetries

\* backoff ? delayMs * Math.pow(2, attempt - 1) : delayMs
RetryDelay(backoff, delayMs, attempt) ==
    IF backoff THEN delayMs * (2 ^ (attempt - 1)) ELSE delayMs

RetryOps ==
    [failures : (0..MaxFailures) \cup {AlwaysFails}, throwsError : BOOLEAN]

RetryStates ==
        [pc : {"idle"},
         maxRetries : 0..MaxRetriesBound,
         delayMs : {DefaultDelayMs},
         backoff : BOOLEAN,
         hasOnRetry : BOOLEAN,
         op : RetryOps,
         attempt : {0},
         calls : {0},
         onRetry : {<<>>},
         slept : {<<>>},
         lastError : {UnknownError},
         result : {"none"}]

\* withRetry not in use: the default options, an operation that succeeds
RetryOff ==
    [pc |-> "idle", maxRetries |-> DefaultMaxRetries, delayMs |-> DefaultDelayMs,
     backoff |-> TRUE, hasOnRetry |-> FALSE,
     op |-> [failures |-> 0, throwsError |-> TRUE],
     attempt |-> 0, calls |-> 0, onRetry |-> <<>>, slept |-> <<>>,
     lastError |-> UnknownError, result |-> "none"]

\* Entry of withRetry: the locals are set and the loop condition is tested
\* for attempt = 1.
withRetryEnter ==
    /\ retry.pc = "idle"
    /\ retry' = [retry EXCEPT
                    !.attempt = 1,
                    !.lastError = UnknownError,
                    !.pc = IF LoopContinues(1, retry.maxRetries)
                           THEN "attempt" ELSE "threw"]
    /\ UNCHANGED nonRetryVars

\* One iteration of the loop body up to its suspension point: fn() is awaited;
\* a success returns, a failure is recorded, and either the loop is left
\* (final attempt) or onRetry is called and the sleep is started.
withRetryAttempt ==
    /\ retry.pc = "attempt"
    /\ LET n == retry.calls + 1
           err == ToError(Thrown(retry.op, n))
       IN IF ~FnFails(retry.op, n)
          THEN retry' = [retry EXCEPT !.calls = n,
                                      !.pc = "returned",
                                      !.result = SuccessValue]
          ELSE IF IsFinalAttempt(retry.attempt, retry.maxRetries)
               THEN retry' = [retry EXCEPT !.calls = n,
                                           !.lastError = err,
                                           !.pc = "threw"]
               ELSE retry' = [retry EXCEPT
                        !.calls = n,
                        !.lastError = err,
                        !.onRetry = IF retry.hasOnRetry
                                    THEN Append(@, [attempt |-> retry.attempt,
                                                    error |-> err])
                                    ELSE @,
                        !.slept = Append(@, RetryDelay(retry.backoff,
                                                       retry.delayMs,
                                                       retry.attempt)),
                        !.pc = "sleep"]
    /\ UNCHANGED nonRetryVars

\* The timer fires: attempt++ and the loop condition is tested again.
withRetryWake ==
    /\ retry.pc = "sleep"
    /\ retry' = [retry EXCEPT
                    !.attempt = @ + 1,
                    !.pc = IF LoopContinues(retry.attempt + 1, retry.maxRetries)
                           THEN "attempt" ELSE "threw"]
    /\ UNCHANGED nonRetryVars

RetryNext == withRetryEnter \/ withRetryAttempt \/ withRetryWake


RetryFinished == retry.pc \in {"returned", "threw"}

\* C10: for maxRetries >= 1 and an operation failing exactly k < maxRetries
\* times before succeeding, withRetry never throws, and once it has finished
\* it returned the success value after exactly k+1 attempts and k onRetry
\* calls, the i-th called with attempt number i and the error of attempt i.
C10_FailsKThenSucceeds ==
    (retry.maxRetries >= 1 /\ retry.op.failures < retry.maxRetries) =>
        /\ retry.pc # "threw"
        /\ retry.calls <= retry.op.failures + 1
        /\ RetryFinished =>
            /\ retry.pc = "returned"
            /\ retry.result = SuccessValue
            /\ retry.calls = retry.op.failures + 1
            /\ retry.hasOnRetry =>
                /\ Len(retry.onRetry) = retry.op.failures
                /\ \A i \in 1..Len(retry.onRetry) :
                      /\ retry.onRetry[i].attempt = i
                      /\ retry.onRetry[i].error.isError
                      /\ retry.onRetry[i].error.msg = Thrown(retry.op, i).msg

\* A run with at least two retries before the success, with an observer.
C10_Witness ==
    /\ retry.pc = "returned"
    /\ retry.hasOnRetry
    /\ retry.op.failures = 2
    /\ retry.maxRetries = 3
    /\ Len(retry.onRetry) = 2

RECURSIVE SumSeq(_)
SumSeq(s) == IF s = <<>> THEN 0 ELSE s[1] + SumSeq(Tail(s))

\* delayMs * (2^0 + ... + 2^(n-1))
BackoffTotal(delayMs, n) == delayMs * ((2 ^ n) - 1)

\* C11: for maxRetries >= 1 and an operation that always fails, withRetry
\* never returns, and once it has finished it has thrown the error of attempt
\* maxRetries after exactly maxRetries attempts, maxRetries - 1 onRetry calls
\* (none for the final failure) and maxRetries - 1 sleeps, which with backoff
\* last delayMs * 2^(i-1) for i = 1..maxRetries-1.
C11_AlwaysFails ==
    (retry.maxRetries >= 1 /\ retry.op.failures = AlwaysFails) =>
        /\ retry.pc # "returned"
        /\ retry.calls <= retry.maxRetries
        /\ RetryFinished =>
            /\ retry.pc = "threw"
            /\ retry.calls = retry.maxRetries
            /\ retry.lastError.isError
            /\ retry.lastError.msg = Thrown(retry.op, retry.maxRetries).msg
            /\ retry.hasOnRetry =>
                /\ Len(retry.onRetry) = retry.maxRetries - 1
                /\ \A i \in 1..Len(retry.onRetry) : retry.onRetry[i].attempt = i
            /\ ~retry.hasOnRetry => retry.onRetry = <<>>
            /\ Len(retry.slept) = retry.maxRetries - 1
            /\ retry.backoff =>
                /\ \A i \in 1..Len(retry.slept) :
                      retry.slept[i] = retry.delayMs * (2 ^ (i - 1))
                /\ SumSeq(retry.slept) =
                      BackoffTotal(retry.delayMs, retry.maxRetries - 1)

\* Three attempts with backoff and an observer, all failed with raw values.
C11_Witness ==
    /\ retry.pc = "threw"
    /\ retry.op.failures = AlwaysFails
    /\ ~retry.op.throwsError
    /\ retry.maxRetries = 3
    /\ retry.backoff /\ retry.hasOnRetry
    /\ retry.slept = <<1000, 2000>>
    /\ retry.calls = 3

(***************************************************************************)
(* Strings.  A JavaScript string is a sequence of one-character strings,   *)
(* so that test(), includes(), split(), trim(), toLowerCase() and slice()  *)
(* are computed on the characters.                                         *)
(***************************************************************************)

DigitChars == {"0", "1", "2", "3", "4", "5", "6", "7", "8", "9"}

UpperChars ==
    <<"A","B","C","D","E","F","G","H","I","J","K","L","M",
      "N","O","P","Q","R","S","T","U","V","W","X","Y","Z">>

LowerChars ==
    <<"a","b","c","d","e","f","g","h","i","j","k","l","m",
      "n","o","p","q","r","s","t","u","v","w","x","y","z">>

SpaceChars == {" ", "\t", "\n"}

\* String.prototype.toLowerCase
ToLowerCase(s) ==
    [i \in 1..Len(s) |->
        IF \E k \in 1..Len(UpperChars) : UpperChars[k] = s[i]
        THEN LowerChars[CHOOSE k \in 1..Len(UpperChars) : UpperChars[k] = s[i]]
        ELSE s[i]]

\* String.prototype.trim
Trim(s) ==
    LET keep == {i \in 1..Len(s) : s[i] \notin SpaceChars}
    IN IF keep = {} THEN <<>>
       ELSE LET lo == CHOOSE i \in keep : \A j \in keep : i <= j
                hi == CHOOSE i \in keep : \A j \in keep : j <= i
            IN SubSeq(s, lo, hi)

\* String.prototype.includes
Includes(s, sub) ==
    \E i \in 0..(Len(s) - Len(sub)) : SubSeq(s, i + 1, i + Len(sub)) = sub

\* String.prototype.split(/[,;]/): the pieces between separators, empty ones kept
RECURSIVE SplitFrom(_, _, _)
SplitFrom(s, i, piece) ==
    IF i > Len(s) THEN <<piece>>
    ELSE IF s[i] \in {",", ";"}
         THEN <<piece>> \o SplitFrom(s, i + 1, <<>>)
         ELSE SplitFrom(s, i + 1, Append(piece, s[i]))

Split(s) == SplitFrom(s, 1, <<>>)

\* String.prototype.slice(-4)
SliceLast4(s) == IF Len(s) <= 4 THEN s ELSE SubSeq(s, Len(s) - 3, Len(s))

\* Array.prototype.join(', ')
RECURSIVE JoinCommaSpace(_)
JoinCommaSpace(list) ==
    IF list = <<>> THEN <<>>
    ELSE IF Len(list) = 1 THEN list[1]
         ELSE list[1] \o <<",", " ">> \o JoinCommaSpace(Tail(list))

\* Array.prototype.filter(i => i.length > 0)
RECURSIVE NonEmpty(_)
NonEmpty(list) ==
    IF list = <<>> THEN <<>>
    ELSE IF Len(list[1]) > 0 THEN <<list[1]>> \o NonEmpty(Tail(list))
         ELSE NonEmpty(Tail(list))

(***************************************************************************)
(* Scoring Engine: constants/keto and services/ketoScoring                 *)
(***************************************************************************)

\* SCORE_THRESHOLDS
SAFE == 80
BORDERLINE == 60

\* INGREDIENT_COUNT_PENALTY
COUNT_THRESHOLD == 10
COUNT_PENALTY == 10

\* Object.entries() of the table, in insertion order
INGREDIENT_PENALTIES == <<
    [key |-> <<"s","u","g","a","r">>,
     penalty |-> 25, reason |-> "Pure sugar"],
    [key |-> <<"c","a","n","e"," ","s","u","g","a","r">>,
     penalty |-> 25, reason |-> "Pure sugar"],
    [key |-> <<"b","r","o","w","n"," ","s","u","g","a","r">>,
     penalty |-> 25, reason |-> "Pure sugar"],
    [key |-> <<"h","i","g","h"," ","f","r","u","c","t","o","s","e"," ","c","o","r","n"," ","s","y","r","u","p">>,
     penalty |-> 30, reason |-> "Highly processed sugar"],
    [key |-> <<"c","o","r","n"," ","s","y","r","u","p">>,
     penalty |-> 25, reason |-> "Processed sugar"],
    [key |-> <<"a","g","a","v","e"," ","n","e","c","t","a","r">>,
     penalty |-> 20, reason |-> "High fructose content"],
    [key |-> <<"h","o","n","e","y">>,
     penalty |-> 15, reason |-> "Natural but high carb"],
    [key |-> <<"m","a","p","l","e"," ","s","y","r","u","p">>,
     penalty |-> 15, reason |-> "Natural but high carb"],
    [key |-> <<"m","o","l","a","s","s","e","s">>,
     penalty |-> 20, reason |-> "High sugar content"],
    [key |-> <<"d","e","x","t","r","o","s","e">>,
     penalty |-> 20, reason |-> "Sugar form"],
    [key |-> <<"f","r","u","c","t","o","s","e">>,
     penalty |-> 20, reason |-> "Sugar form"],
    [key |-> <<"g","l","u","c","o","s","e">>,
     penalty |-> 20, reason |-> "Sugar form"],
    [key |-> <<"s","u","c","r","o","s","e">>,
     penalty |-> 25, reason |-> "Table sugar"],
    [key |-> <<"m","a","l","t","o","d","e","x","t","r","i","n">>,
     penalty |-> 25, reason |-> "Higher glycemic than sugar"],
    [key |-> <<"c","o","r","n","s","t","a","r","c","h">>,
     penalty |-> 15, reason |-> "Pure starch"],
    [key |-> <<"m","o","d","i","f","i","e","d"," ","f","o","o","d"," ","s","t","a","r","c","h">>,
     penalty |-> 15, reason |-> "Starch filler"],
    [key |-> <<"p","o","t","a","t","o"," ","s","t","a","r","c","h">>,
     penalty |-> 15, reason |-> "High starch"],
    [key |-> <<"t","a","p","i","o","c","a"," ","s","t","a","r","c","h">>,
     penalty |-> 15, reason |-> "High starch"],
    [key |-> <<"w","h","e","a","t">>,
     penalty |-> 15, reason |-> "Grain-based carbs"],
    [key |-> <<"w","h","e","a","t"," ","f","l","o","u","r">>,
     penalty |-> 18, reason |-> "Refined grain"],
    [key |-> <<"e","n","r","i","c","h","e","d"," ","w","h","e","a","t"," ","f","l","o","u","r">>,
     penalty |-> 18, reason |-> "Refined grain"],
    [key |-> <<"b","r","e","a","d"," ","c","r","u","m","b","s">>,
     penalty |-> 15, reason |-> "Wheat-based"],
    [key |-> <<"r","i","c","e"," ","f","l","o","u","r">>,
     penalty |-> 15, reason |-> "High carb flour"],
    [key |-> <<"c","o","r","n"," ","f","l","o","u","r">>,
     penalty |-> 15, reason |-> "High carb flour"],
    [key |-> <<"o","a","t"," ","f","l","o","u","r">>,
     penalty |-> 12, reason |-> "Grain flour"],
    [key |-> <<"n","a","t","u","r","a","l"," ","f","l","a","v","o","r","s">>,
     penalty |-> 5, reason |-> "Potentially contains hidden carbs"],
    [key |-> <<"a","r","t","i","f","i","c","i","a","l"," ","f","l","a","v","o","r","s">>,
     penalty |-> 3, reason |-> "Minor concern"],
    [key |-> <<"c","a","r","r","a","g","e","e","n","a","n">>,
     penalty |-> 3, reason |-> "Controversial additive"],
    [key |-> <<"f","r","u","i","t"," ","j","u","i","c","e"," ","c","o","n","c","e","n","t","r","a","t","e">>,
     penalty |-> 15, reason |-> "Concentrated sugar"],
    [key |-> <<"e","v","a","p","o","r","a","t","e","d"," ","c","a","n","e"," ","j","u","i","c","e">>,
     penalty |-> 20, reason |-> "Sugar in disguise"],
    [key |-> <<"r","i","c","e"," ","s","y","r","u","p">>,
     penalty |-> 20, reason |-> "High glycemic"],
    [key |-> <<"b","a","r","l","e","y"," ","m","a","l","t">>,
     penalty |-> 15, reason |-> "Malt sugar"]
>>

getVerdict(score) ==
    IF score >= SAFE THEN "safe"
    ELSE IF score >= BORDERLINE THEN "borderline"
    ELSE "avoid"

ClampAbove(score) == IF score > 100 THEN 100 ELSE score

\* Math.max(0, Math.min(100, score))
Clamp(score) ==
    IF score < 0 THEN 0 ELSE IF score > 100 THEN 100 ELSE score

\* The inner loop of calculateProductScore: the index of the first table
\* entry included in the ingredient, 0 when none is.
FirstMatch(ingredient) ==
    LET hits == {k \in 1..Len(INGREDIENT_PENALTIES) :
                    Includes(ingredient, INGREDIENT_PENALTIES[k].key)}
    IN IF hits = {} THEN 0
       ELSE CHOOSE k \in hits : \A j \in hits : k <= j

IngredientPenaltyStacked(ingredient) ==
    SumSeq([k \in 1..Len(INGREDIENT_PENALTIES) |->
               IF Includes(ingredient, INGREDIENT_PENALTIES[k].key)
               THEN INGREDIENT_PENALTIES[k].penalty ELSE 0])

\* score -= penalty of the first entry included, then break
IngredientPenalty(ingredient) ==
    IF FirstMatch(ingredient) = 0 THEN 0
    ELSE INGREDIENT_PENALTIES[FirstMatch(ingredient)].penalty

\* parsedIngredients entry pushed for one ingredient
ParsedIngredient(ingredient) ==
    IF FirstMatch(ingredient) = 0
    THEN [name |-> ingredient, is_offender |-> FALSE, penalty_score |-> 0,
          reason |-> "undefined"]
    ELSE [name |-> ingredient, is_offender |-> TRUE,
          penalty_score |-> INGREDIENT_PENALTIES[FirstMatch(ingredient)].penalty,
          reason |-> INGREDIENT_PENALTIES[FirstMatch(ingredient)].reason]

RECURSIVE SumPenalties(_)
SumPenalties(list) ==
    IF list = <<>> THEN 0
    ELSE IngredientPenalty(list[1]) + SumPenalties(Tail(list))

\* ingredients.map(i => i.toLowerCase().trim())
NormalizeIngredients(ingredients) ==
    [i \in 1..Len(ingredients) |-> Trim(ToLowerCase(ingredients[i]))]

\* Penalties are integers, so Math.round leaves the score as it is.
calculateProductScore(ingredients) ==
    LET raw == 100 - SumPenalties(NormalizeIngredients(ingredients))
               - (IF Len(ingredients) > COUNT_THRESHOLD THEN COUNT_PENALTY ELSE 0)
        score == Clamp(raw)
    IN [score |-> score, verdict |-> getVerdict(score), confidence |-> "high"]

(***************************************************************************)
(* Product Directory Client: services/barcodeService                       *)
(*                                                                         *)
(* Grams are fixed-point numbers in hundredths of a gram (1250 is 12.5 g), *)
(* completeness is in hundredths, calories are whole kcal.  An optional    *)
(* value is <<>> (undefined) or <<v>>; an optional string is "undefined".  *)
(***************************************************************************)

\* A name is a literal text, or the template `Product #${barcode.slice(-4)}`.
Name(text) == [text |-> text, suffix |-> <<>>]

ProductNo(barcode) == [text |-> "Product #", suffix |-> SliceLast4(barcode)]

\* JavaScript falsiness of an optional string
FalsyStr(s) == s \in {"undefined", "null", ""}

FalsyName(n) == FalsyStr(n.text) /\ n.suffix = <<>>

\* x || 0 on an optional number
OrZero(x) == IF x = <<>> THEN 0 ELSE x[1]

Truthy(optBool) == optBool = <<TRUE>>

Max0(x) == IF x < 0 THEN 0 ELSE x

\* Math.round(x * 10) / 10 on hundredths, x >= 0
RoundTenth(h) == ((h + 5) \div 10) * 10

\* Math.round(x) on hundredths, to a whole number, x >= 0
RoundWhole(h) == (h + 50) \div 100

ZeroMacros ==
    [net_carbs |-> 0, fat |-> 0, protein |-> 0, calories |-> 0, fiber |-> <<>>]

Suggestion(text) == [text |-> text, arg |-> <<>>]

\* /^[0-9]{8,14}$/ : the digits are consumed greedily from the start, at
\* most 14 of them, and the match needs at least 8 and the end of the input.
RECURSIVE DigitRun(_, _)
DigitRun(s, i) ==
    IF i <= Len(s) /\ s[i] \in DigitChars THEN 1 + DigitRun(s, i + 1) ELSE 0

BARCODE_REGEX_Unanchored(barcode) == DigitRun(barcode, 1) >= 8

BARCODE_REGEX(barcode) ==
    LET run == DigitRun(barcode, 1)
    IN run >= 8 /\ run <= 14 /\ run = Len(barcode)

InvalidBarcodeResult(barcode) ==
    [id |-> <<>>, found |-> FALSE, barcode |-> barcode,
     name |-> Name("Invalid barcode"), brand |-> "",
     macros |-> ZeroMacros, ingredients |-> <<>>,
     ketoScore |-> 0, ketoVerdict |-> "avoid",
     swapSuggestion |-> Suggestion("Please scan a valid product barcode (8-14 digits)."),
     imageUrl |-> "undefined", imageIngredientsUrl |-> "undefined",
     imageNutritionUrl |-> "undefined",
     source |-> "api", needsOCR |-> <<>>]

NotFoundResult(barcode) ==
    [InvalidBarcodeResult(barcode) EXCEPT
        !.name = Name("Product not found"),
        !.swapSuggestion = Suggestion("We couldn't find this product in our database. Try a different item or scan a meal instead.")]

LookupFailedResult(barcode) ==
    [InvalidBarcodeResult(barcode) EXCEPT
        !.name = Name("Lookup failed"),
        !.swapSuggestion = Suggestion("Unable to fetch product data. Please check your connection and try again.")]

S_sugar == <<"s","u","g","a","r">>
S_syrup == <<"s","y","r","u","p">>
S_dextrose == <<"d","e","x","t","r","o","s","e">>
S_maltodextrin == <<"m","a","l","t","o","d","e","x","t","r","i","n">>
S_canola == <<"c","a","n","o","l","a">>
S_soybean_oil == <<"s","o","y","b","e","a","n"," ","o","i","l">>
S_sunflower_oil == <<"s","u","n","f","l","o","w","e","r"," ","o","i","l">>
S_vegetable_oil == <<"v","e","g","e","t","a","b","l","e"," ","o","i","l">>

\* netCarbs is in hundredths of a gram; the message of the last rule but one
\* carries the number.
generateSwapSuggestion(score, netCarbs, ingredients) ==
    LET hasSugar == \E k \in 1..Len(ingredients) :
                        \/ Includes(ingredients[k], S_sugar)
                        \/ Includes(ingredients[k], S_syrup)
                        \/ Includes(ingredients[k], S_dextrose)
                        \/ Includes(ingredients[k], S_maltodextrin)
        hasSeedOils == \E k \in 1..Len(ingredients) :
                        \/ Includes(ingredients[k], S_canola)
                        \/ Includes(ingredients[k], S_soybean_oil)
                        \/ Includes(ingredients[k], S_sunflower_oil)
                        \/ Includes(ingredients[k], S_vegetable_oil)
    IN IF score >= 85
       THEN Suggestion("Excellent keto choice! This product fits well within your daily carb limit.")
       ELSE IF score >= 75
       THEN Suggestion("Good pick! Watch your portion size to stay within your carb budget.")
       ELSE IF hasSugar /\ netCarbs > 1000
       THEN Suggestion("High sugar content. Look for a sugar-free or stevia-sweetened alternative.")
       ELSE IF hasSeedOils
       THEN Suggestion("Contains inflammatory seed oils. Try a version made with olive oil or avocado oil.")
       ELSE IF netCarbs > 1500
       THEN [text |-> "g net carbs per 100g is too high. Look for a lower-carb alternative.",
             arg |-> <<netCarbs>>]
       ELSE Suggestion("Consider a cleaner keto option with fewer processed ingredients.")

mapVerdict(v) ==
    IF v = "safe" THEN "safe" ELSE IF v = "avoid" THEN "avoid" ELSE "borderline"

\* adjustedScore >= 75 ? 'safe' : adjustedScore >= 50 ? 'borderline' : 'avoid'
BarcodeVerdict(score) ==
    IF score >= 75 THEN "safe" ELSE IF score >= 50 THEN "borderline" ELSE "avoid"

AdjustScoreInclusive(score, netCarbs) ==
    IF netCarbs >= 2000 THEN Max0(score - 30)
    ELSE IF netCarbs >= 1000 THEN Max0(score - 15)
    ELSE IF netCarbs >= 500 THEN Max0(score - 5)
    ELSE score

\* The second pass on net carbs per 100 g
AdjustScore(score, netCarbs) ==
    IF netCarbs > 2000 THEN Max0(score - 30)
    ELSE IF netCarbs > 1000 THEN Max0(score - 15)
    ELSE IF netCarbs > 500 THEN Max0(score - 5)
    ELSE score

\* nutriments[key] of the response, <<>> when the key is absent
Nutriment(nutriments, key) ==
    IF key \in DOMAIN nutriments THEN <<nutriments[key]>> ELSE <<>>

\* The found-but-incomplete result
PartialResult(barcode, product) ==
    [id |-> <<>>, found |-> TRUE, barcode |-> barcode,
     name |-> IF FalsyStr(product.product_name) THEN Name("Scanned product")
              ELSE Name(product.product_name),
     brand |-> IF FalsyStr(product.brands) THEN "" ELSE product.brands,
     macros |-> ZeroMacros, ingredients |-> <<>>,
     ketoScore |-> 50, ketoVerdict |-> "borderline",
     swapSuggestion |-> Suggestion("Analyzing label images for better accuracy..."),
     imageUrl |-> IF FalsyStr(product.image_front_url) THEN product.image_url
                  ELSE product.image_front_url,
     imageIngredientsUrl |-> product.image_ingredients_url,
     imageNutritionUrl |-> product.image_nutrition_url,
     source |-> "api", needsOCR |-> <<TRUE>>]

\* The found-and-complete result
CompleteResult(barcode, product, isVeryIncomplete) ==
    LET nutriments == product.nutriments
        totalCarbs == OrZero(Nutriment(nutriments, "carbohydrates_100g"))
        fiber == OrZero(Nutriment(nutriments, "fiber_100g"))
        netCarbs == Max0(totalCarbs - fiber)
        macros == [net_carbs |-> RoundTenth(netCarbs),
                   fat |-> RoundTenth(OrZero(Nutriment(nutriments, "fat_100g"))),
                   protein |-> RoundTenth(OrZero(Nutriment(nutriments, "proteins_100g"))),
                   calories |-> RoundWhole(OrZero(Nutriment(nutriments, "energy-kcal_100g"))),
                   fiber |-> <<RoundTenth(fiber)>>]
        ingredientsText == IF product.ingredients_text.type = "string"
                           THEN product.ingredients_text.chars ELSE <<>>
        ingredients == NonEmpty(NormalizeIngredients(Split(ingredientsText)))
        ketoResult == calculateProductScore(ingredients)
        adjustedScore == AdjustScore(ketoResult.score, netCarbs)
        productName == IF ~FalsyStr(product.product_name)
                       THEN Name(product.product_name)
                       ELSE IF ~FalsyStr(product.brands)
                            THEN Name(product.brands)
                            ELSE ProductNo(barcode)
    IN [id |-> <<>>, found |-> TRUE, barcode |-> barcode,
        name |-> productName,
        brand |-> IF FalsyStr(product.brands) THEN "" ELSE product.brands,
        macros |-> macros, ingredients |-> ingredients,
        ketoScore |-> adjustedScore,
        ketoVerdict |-> BarcodeVerdict(adjustedScore),
        swapSuggestion |-> generateSwapSuggestion(adjustedScore, netCarbs, ingredients),
        imageUrl |-> IF FalsyStr(product.image_front_url) THEN product.image_url
                     ELSE product.image_front_url,
        imageIngredientsUrl |-> product.image_ingredients_url,
        imageNutritionUrl |-> product.image_nutrition_url,
        source |-> "api",
        needsOCR |-> <<isVeryIncomplete \/ Len(ingredients) = 0>>]

\* The completion of an awaited call: a returned value or a thrown exception.
Return(v) == [threw |-> FALSE, value |-> <<v>>]

Throw == [threw |-> TRUE, value |-> <<>>]

\* The try block of lookupProductFromAPI on the outcome of fetch(): a
\* rejection, a non-OK status, a body that is not JSON and an
\* ingredients_text that is not a string (split is not a function) throw.
FetchTry(barcode, resp) ==
    IF resp.kind = "reject" \/ ~resp.ok \/ resp.body.kind # "json"
    THEN Throw
    ELSE LET data == resp.body.data
         IN IF data.status # 1 \/ ~data.hasProduct
            THEN Return(NotFoundResult(barcode))
            ELSE LET product == data.product
                     completeness == OrZero(product.completeness)
                     isVeryIncomplete == completeness < 50
                     nutriments == product.nutriments
                     hasNutritionData ==
                        /\ ~isVeryIncomplete
                        /\ Cardinality(DOMAIN nutriments) > 0
                        /\ \/ "carbohydrates_100g" \in DOMAIN nutriments
                           \/ "fat_100g" \in DOMAIN nutriments
                           \/ "proteins_100g" \in DOMAIN nutriments
                 IN IF ~hasNutritionData \/ isVeryIncomplete
                    THEN Return(PartialResult(barcode, product))
                    ELSE IF product.ingredients_text.type \notin {"string", "undefined"}
                         THEN Throw
                         ELSE Return(CompleteResult(barcode, product, isVeryIncomplete))

FetchCatchRethrows(completion, barcode) == completion

\* The catch block of lookupProductFromAPI
FetchCatch(completion, barcode) ==
    IF completion.threw THEN Return(LookupFailedResult(barcode)) ELSE completion

lookupProductFromAPI(barcode, resp) == FetchCatch(FetchTry(barcode, resp), barcode)

(***************************************************************************)
(* The external product directory (Open Food Facts), by barcode.           *)
(***************************************************************************)

Rep(c, n) == [i \in 1..n |-> c]

NoText == [type |-> "undefined", chars |-> <<>>]

Text(chars) == [type |-> "string", chars |-> chars]

OffProduct(name, brands, completeness, nutriments, text, front, ingr) ==
    [product_name |-> name, brands |-> brands, completeness |-> completeness,
     nutriments |-> nutriments, ingredients_text |-> text,
     image_url |-> "undefined", image_front_url |-> front,
     image_ingredients_url |-> ingr, image_nutrition_url |-> "undefined"]

Json(status, hasProduct, product) ==
    [kind |-> "http", ok |-> TRUE, status |-> 200,
     body |-> [kind |-> "json",
               data |-> [status |-> status, hasProduct |-> hasProduct,
                         product |-> product]]]

NoProduct == OffProduct("undefined", "undefined", <<>>, <<>>, NoText, "undefined", "undefined")

AlmondBar ==
    OffProduct("Almond Bar", "KetoCo", <<80>>,
               ("carbohydrates_100g" :> 1250) @@ ("fiber_100g" :> 400) @@
               ("fat_100g" :> 3004) @@ ("proteins_100g" :> 1000) @@
               ("energy-kcal_100g" :> 45050),
               Text(<<"a","l","m","o","n","d","s",","," ","C","a","n","e"," ","S","u","g","a","r",";"," ","S","a","l","t">>),
               "front.jpg", "ingredients.jpg")

UnlabelledJar ==
    OffProduct("undefined", "undefined", <<30>>,
               ("fat_100g" :> 900), NoText, "front.jpg", "ingredients.jpg")

PlainOil ==
    OffProduct("", "OilCo", <<50>>,
               ("fat_100g" :> 10000) @@ ("fiber_100g" :> 100),
               NoText, "front.jpg", "undefined")

CandyBar ==
    OffProduct("Candy Bar", "", <<90>>,
               ("carbohydrates_100g" :> 6000) @@ ("fat_100g" :> 0),
               Text(<<"S","u","g","a","r",","," ","C","o","r","n"," ","S","y","r","u","p",","," ","W","h","e","a","t"," ","F","l","o","u","r">>),
               "undefined", "undefined")

BadText ==
    [AlmondBar EXCEPT !.ingredients_text = [type |-> "number", chars |-> <<>>]]

\* The answer of the directory for a barcode, chosen by its first digit.
Directory(barcode) ==
    LET d == IF Len(barcode) > 0 THEN barcode[1] ELSE "0"
    IN CASE d = "1" -> Json(1, TRUE, AlmondBar)
         [] d = "2" -> Json(1, TRUE, UnlabelledJar)
         [] d = "3" -> Json(0, FALSE, NoProduct)
         [] d = "4" -> [kind |-> "http", ok |-> FALSE, status |-> 500,
                        body |-> [kind |-> "text"]]
         [] d = "5" -> [kind |-> "http", ok |-> TRUE, status |-> 200,
                        body |-> [kind |-> "text"]]
         [] d = "6" -> Json(1, TRUE, PlainOil)
         [] d = "7" -> Json(1, TRUE, CandyBar)
         [] d = "8" -> Json(1, TRUE, BadText)
         [] OTHER -> Json(1, FALSE, NoProduct)

Rejected == [kind |-> "reject"]

(***************************************************************************)
(* Local Cache Store: services/shadowDbService over products_shadow and    *)
(* keto_analysis.  Row ids are the insertion ranks; timestamps are left    *)
(* out, no operation reads them.                                           *)
(***************************************************************************)

NullName == Name("null")

\* The rows of products_shadow matching .eq('barcode').eq('country_code')
Matching(rows, barcode, countryCode) ==
    {i \in 1..Len(rows) :
        rows[i].barcode = barcode /\ rows[i].country_code = countryCode}

\* The embedded keto_analysis(*) of a product row: <<>> for none
Embedded(rowsA, productId) ==
    LET of == {i \in 1..Len(rowsA) : rowsA[i].product_id = productId}
    IN IF of = {} THEN <<>>
       ELSE <<rowsA[CHOOSE i \in of : \A j \in of : i <= j]>>

\* .single(): the data only when exactly one row matches, else an error
Single(rows, rowsA, barcode, countryCode) ==
    LET m == Matching(rows, barcode, countryCode)
    IN IF Cardinality(m) = 1
       THEN LET r == rows[CHOOSE i \in m : TRUE]
            IN <<[row |-> r, keto_analysis |-> Embedded(rowsA, r.id)]>>
       ELSE <<>>

\* lookupByBarcode: outcome is what the select does ("ok", "error", "throw").
\* data is <<>> for null; update is the usage-statistics update it issues
\* without awaiting it.
lookupByBarcode(rows, rowsA, barcode, countryCode, outcome) ==
    IF outcome = "throw" THEN [threw |-> TRUE, data |-> <<>>, update |-> <<>>]
    ELSE LET data == IF outcome = "error" THEN <<>>
                     ELSE Single(rows, rowsA, barcode, countryCode)
         IN [threw |-> FALSE, data |-> data,
             update |-> IF data = <<>> THEN <<>>
                        ELSE <<[id |-> data[1].row.id,
                                scan_count |-> data[1].row.scan_count + 1]>>]

\* The row saveProduct is given by lookupProduct
ShadowRowOf(apiResult, countryCode) ==
    [barcode |-> apiResult.barcode,
     country_code |-> countryCode,
     product_name |-> IF apiResult.name = Name("Scanned product")
                      THEN NullName ELSE apiResult.name,
     brand |-> apiResult.brand,
     ingredients_raw |-> JoinCommaSpace(apiResult.ingredients),
     ingredients_normalized |-> apiResult.ingredients,
     source |-> IF Truthy(apiResult.needsOCR) THEN "ocr" ELSE "api",
     confidence_level |-> IF Truthy(apiResult.needsOCR) THEN "low" ELSE "high"]

AnalysisOf(apiResult) ==
    [keto_score |-> apiResult.ketoScore,
     verdict |-> mapVerdict(apiResult.ketoVerdict),
     ruleset_version |-> "v1"]

\* The result built from a cache hit
ShadowResult(cached, barcode) ==
    [id |-> <<cached.row.id>>, found |-> TRUE,
     barcode |-> IF cached.row.barcode = <<>> THEN barcode ELSE cached.row.barcode,
     name |-> IF FalsyName(cached.row.product_name) THEN ProductNo(barcode)
              ELSE cached.row.product_name,
     brand |-> IF FalsyStr(cached.row.brand) THEN "" ELSE cached.row.brand,
     macros |-> ZeroMacros,
     ingredients |-> cached.row.ingredients_normalized,
     ketoScore |-> cached.keto_analysis[1].keto_score,
     ketoVerdict |-> cached.keto_analysis[1].verdict,
     swapSuggestion |-> generateSwapSuggestion(cached.keto_analysis[1].keto_score, 0,
                                               cached.row.ingredients_normalized),
     imageUrl |-> "undefined", imageIngredientsUrl |-> "undefined",
     imageNutritionUrl |-> "undefined",
     source |-> "shadow", needsOCR |-> <<>>]

(***************************************************************************)
(* Resolution Orchestrator: lookupProduct                                  *)
(***************************************************************************)

\* Bounds: concurrent or successive resolutions, and upcoming fetch rejections.
MaxCalls == 2
MaxTransient == 1

CallIds == 1..MaxCalls

Countries == {"US"}

\* The barcodes that are scanned: valid ones of 8, 12, 13 and 14 digits, and
\* malformed ones (empty, 7 digits, 15 digits, a letter among digits).
ValidScans ==
    {Rep("1", 8), Rep("2", 13), Rep("3", 14), Rep("4", 12)}

MalformedScans ==
    {<<>>, Rep("1", 7), Rep("1", 15), Rep("1", 7) \o <<"a">>}

ScannedBarcodes == ValidScans \cup MalformedScans

IdleCall ==
    [pc |-> "idle", barcode |-> <<>>, countryCode |-> "US",
     select |-> "none", cached |-> <<>>,
     fetchRejected |-> FALSE, retryWouldFind |-> FALSE,
     apiResult |-> <<>>, productId |-> <<>>, saveOutcome |-> "none",
     result |-> <<>>, nLookup |-> 0, nFetch |-> 0, nSave |-> 0]

\* Layer 0: validation
Validate(call, barcode, countryCode) ==
    IF ~BARCODE_REGEX(barcode)
    THEN [call EXCEPT !.barcode = barcode, !.countryCode = countryCode,
                      !.pc = "done",
                      !.result = <<InvalidBarcodeResult(barcode)>>]
    ELSE [call EXCEPT !.barcode = barcode, !.countryCode = countryCode,
                      !.pc = "lookup"]

ShadowCatchRethrows(call) == [call EXCEPT !.pc = "threw"]

\* catch (err) of Layer 1: the error is logged and Layer 2 follows
ShadowCatch(call) == [call EXCEPT !.pc = "fetch"]

\* Layer 1 after lookupByBarcode has settled
AfterCacheLookup(call, res) ==
    LET seen == [call EXCEPT !.nLookup = @ + 1, !.cached = res.data]
    IN IF res.threw THEN ShadowCatch(seen)
       ELSE IF res.data # <<>> /\ res.data[1].keto_analysis # <<>>
            THEN [seen EXCEPT !.pc = "done",
                              !.result = <<ShadowResult(res.data[1], call.barcode)>>]
            ELSE [seen EXCEPT !.pc = "fetch"]

\* Layer 2 after lookupProductFromAPI has settled: nothing catches around it
AfterFetch(call, resp, completion) ==
    LET seen == [call EXCEPT !.nFetch = @ + 1,
                             !.fetchRejected = (resp.kind = "reject")]
    IN IF completion.threw THEN [seen EXCEPT !.pc = "threw"]
       ELSE IF completion.value[1].found
            THEN [seen EXCEPT !.apiResult = completion.value,
                              !.nSave = @ + 1,
                              !.pc = "saveProduct"]
            ELSE [seen EXCEPT !.apiResult = completion.value,
                              !.pc = "done",
                              !.result = completion.value]
\* catch (err) around saveProduct: logged, then return apiResult
SaveCatch(call) == [call EXCEPT !.pc = "done", !.result = call.apiResult]

SaveFailureSurfaced(call, outcome) ==
    IF outcome = "throw" THEN SaveCatch([call EXCEPT !.saveOutcome = outcome])
    ELSE [call EXCEPT !.saveOutcome = outcome, !.pc = "done",
                      !.result = IF outcome = "ok" THEN call.apiResult
                                 ELSE <<LookupFailedResult(call.barcode)>>]

\* saveProduct has settled (outcome "ok", "productError", "analysisError" or
\* "throw"); its value is not used
AfterSave(call, outcome) ==
    IF outcome = "throw" THEN SaveCatch([call EXCEPT !.saveOutcome = outcome])
    ELSE [call EXCEPT !.saveOutcome = outcome, !.pc = "done",
                      !.result = call.apiResult]

\* A row of products_shadow as stored by insert([product]); scan_count has
\* its column default.
StoredRow(id, product) ==
    [id |-> id, barcode |-> product.barcode, country_code |-> product.country_code,
     product_name |-> product.product_name, brand |-> product.brand,
     ingredients_raw |-> product.ingredients_raw,
     ingredients_normalized |-> product.ingredients_normalized,
     source |-> product.source, confidence_level |-> product.confidence_level,
     scan_count |-> 0]

StoredAnalysis(productId, analysis) ==
    [product_id |-> productId, keto_score |-> analysis.keto_score,
     verdict |-> analysis.verdict, ruleset_version |-> analysis.ruleset_version]

Finished(call) == call.pc \in {"done", "threw"}

\* What is left of an invocation once it has finished: how it ended; its
\* arguments and locals are gone.
Returned(call) == [IdleCall EXCEPT !.pc = call.pc]

\* Invocation c moves to the state next
Settle(c, next) ==
    /\ calls' = [calls EXCEPT ![c] = IF Finished(next) THEN Returned(next) ELSE next]
    /\ lastReturn' = IF Finished(next) THEN next ELSE lastReturn

LookupInit ==
    /\ products = <<>>
    /\ analyses = <<>>
    /\ statUpdates = {}
    /\ calls = [c \in CallIds |-> IdleCall]
    /\ lastReturn = IdleCall
    /\ transientFailures \in 0..MaxTransient

\* lookupProduct is called; calls are numbered in the order they start.
lookupProductStart ==
    \E c \in CallIds, b \in ScannedBarcodes, cc \in Countries :
        /\ calls[c].pc = "idle"
        /\ \A d \in CallIds : d < c => calls[d].pc # "idle"
        /\ Settle(c, Validate(calls[c], b, cc))
        /\ UNCHANGED <<products, analyses, statUpdates, transientFailures>>
    /\ UNCHANGED nonLookupVars

\* The select of lookupByBarcode settles
CacheLookup ==
    \E c \in CallIds, outcome \in {"ok", "error", "throw"} :
        /\ calls[c].pc = "lookup"
        /\ LET res == lookupByBarcode(products, analyses, calls[c].barcode,
                                      calls[c].countryCode, outcome)
           IN /\ Settle(c, AfterCacheLookup([calls[c] EXCEPT !.select = outcome], res))
              /\ statUpdates' =
                    IF res.update = <<>> THEN statUpdates
                    ELSE statUpdates \cup
                            {[call |-> c, id |-> res.update[1].id,
                              scan_count |-> res.update[1].scan_count]}
        /\ UNCHANGED <<products, analyses, transientFailures>>
    /\ UNCHANGED nonLookupVars

\* The usage-statistics update reaches the database, or fails
StatUpdate ==
    \E u \in statUpdates, outcome \in {"ok", "error"} :
        /\ statUpdates' = statUpdates \ {u}
        /\ products' =
              IF outcome = "ok"
              THEN [i \in 1..Len(products) |->
                        IF products[i].id = u.id
                        THEN [products[i] EXCEPT !.scan_count = u.scan_count]
                        ELSE products[i]]
              ELSE products
        /\ UNCHANGED <<analyses, calls, lastReturn, transientFailures>>
    /\ UNCHANGED nonLookupVars

\* What lookupProductFromAPI resolves to for each scanned barcode, when the
\* directory answers and when the fetch is rejected
Answered == [b \in ValidScans |-> lookupProductFromAPI(b, Directory(b))]

FetchFailed == [b \in ValidScans |-> lookupProductFromAPI(b, Rejected)]

Resolve(barcode, rejected) ==
    IF rejected THEN FetchFailed[barcode] ELSE Answered[barcode]

\* fetch() of the directory settles: rejected while the network is failing
DirectoryFetch ==
    \E c \in CallIds :
        /\ calls[c].pc = "fetch"
        /\ LET rejected == transientFailures > 0
               resp == IF rejected THEN Rejected ELSE Directory(calls[c].barcode)
               after == AfterFetch(calls[c], resp, Resolve(calls[c].barcode, rejected))
               next == Answered[calls[c].barcode]
           IN /\ Settle(c, [after EXCEPT !.retryWouldFind =
                                /\ transientFailures = 1
                                /\ ~next.threw
                                /\ next.value[1].found])
              /\ transientFailures' = Max0(transientFailures - 1)
        /\ UNCHANGED <<products, analyses, statUpdates>>
    /\ UNCHANGED nonLookupVars

\* saveProduct step 1: insert into products_shadow
InsertProduct ==
    \E c \in CallIds, outcome \in {"ok", "error", "throw"} :
        /\ calls[c].pc = "saveProduct"
        /\ IF outcome = "ok"
           THEN /\ products' = Append(products,
                        StoredRow(Len(products) + 1,
                                  ShadowRowOf(calls[c].apiResult[1],
                                              calls[c].countryCode)))
                /\ Settle(c, [calls[c] EXCEPT !.pc = "saveAnalysis",
                                               !.productId = <<Len(products) + 1>>])
           ELSE /\ products' = products
                /\ Settle(c, AfterSave(calls[c],
                                       IF outcome = "error" THEN "productError"
                                       ELSE "throw"))
        /\ UNCHANGED <<analyses, statUpdates, transientFailures>>
    /\ UNCHANGED nonLookupVars

\* saveProduct step 2: insert into keto_analysis
InsertAnalysis ==
    \E c \in CallIds, outcome \in {"ok", "error", "throw"} :
        /\ calls[c].pc = "saveAnalysis"
        /\ analyses' =
              IF outcome = "ok"
              THEN Append(analyses,
                          StoredAnalysis(calls[c].productId[1],
                                         AnalysisOf(calls[c].apiResult[1])))
              ELSE analyses
        /\ Settle(c, AfterSave(calls[c],
                               IF outcome = "ok" THEN "ok"
                               ELSE IF outcome = "error" THEN "analysisError"
                               ELSE "throw"))
        /\ UNCHANGED <<products, statUpdates, transientFailures>>
    /\ UNCHANGED nonLookupVars

LookupNext ==
    \/ lookupProductStart
    \/ CacheLookup
    \/ StatUpdate
    \/ DirectoryFetch
    \/ InsertProduct
    \/ InsertAnalysis

(***************************************************************************)
(* Usage statistics: ShadowDbService.lookupByBarcode on records that are   *)
(* already stored.  The update of last_seen_at and scan_count is issued    *)
(* without await, with the scan_count that the select returned plus one.   *)
(***************************************************************************)

\* Bounds: the lookups of stored or missing records, and the scan_count a
\* record starts with
MaxLookups == 3
MaxInitialCount == 1

\* The records stored before the first lookup: a complete product and an
\* incomplete one, saved by earlier resolutions
StoredProducts(first, second) ==
    <<[StoredRow(1, ShadowRowOf(Answered[Rep("1", 8)].value[1], "US"))
          EXCEPT !.scan_count = first],
      [StoredRow(2, ShadowRowOf(Answered[Rep("2", 13)].value[1], "US"))
          EXCEPT !.scan_count = second]>>

StoredAnalyses ==
    <<StoredAnalysis(1, AnalysisOf(Answered[Rep("1", 8)].value[1])),
      StoredAnalysis(2, AnalysisOf(Answered[Rep("2", 13)].value[1]))>>

NoStats == [i \in {1, 2} |-> 0]

StatsOff ==
    shadowStats = [rows |-> <<>>, initial |-> NoStats, pending |-> {},
                   lookups |-> 0, hits |-> NoStats, failed |-> NoStats]

StatsInit ==
    \E first, second \in 0..MaxInitialCount :
        shadowStats = [rows |-> StoredProducts(first, second),
                       initial |-> [i \in {1, 2} |-> IF i = 1 THEN first ELSE second],
                       pending |-> {}, lookups |-> 0,
                       hits |-> NoStats, failed |-> NoStats]

\* lookupByBarcode is called and its select settles; when it returns a row
\* the update is issued
StatsLookup ==
    \E barcode \in {Rep("1", 8), Rep("2", 13), Rep("3", 14)},
       outcome \in {"ok", "error", "throw"} :
        /\ shadowStats.lookups < MaxLookups
        /\ LET res == lookupByBarcode(shadowStats.rows, StoredAnalyses, barcode,
                                      "US", outcome)
           IN shadowStats' =
                 IF res.update = <<>>
                 THEN [shadowStats EXCEPT !.lookups = @ + 1]
                 ELSE [shadowStats EXCEPT
                          !.lookups = @ + 1,
                          !.hits[res.update[1].id] = @ + 1,
                          !.pending = @ \cup
                              {[lookup |-> shadowStats.lookups + 1,
                                id |-> res.update[1].id,
                                scan_count |-> res.update[1].scan_count]}]
        /\ UNCHANGED nonStatsVars

\* A usage-statistics update reaches the database, or fails and is logged
StatsUpdate ==
    \E u \in shadowStats.pending, outcome \in {"ok", "error"} :
        /\ shadowStats' =
              IF outcome = "ok"
              THEN [shadowStats EXCEPT
                       !.pending = @ \ {u},
                       !.rows[u.id].scan_count = u.scan_count]
              ELSE [shadowStats EXCEPT
                       !.pending = @ \ {u},
                       !.failed[u.id] = @ + 1]
        /\ UNCHANGED nonStatsVars

StatsNext == StatsLookup \/ StatsUpdate

(***************************************************************************)
(* The daily scan quota: QuotaService (quotaService.ts) and the handlers   *)
(* of App.tsx that lead to a capture.  Users are not pro.  AsyncStorage     *)
(* holds strings; an absent key is <<>>.                                    *)
(***************************************************************************)

FREE_SCAN_LIMIT == 5

\* Bounds: the captures of one run and the days it spans
MaxCaptures == 3
MaxDays == 2

Digit == <<"0", "1", "2", "3", "4", "5", "6", "7", "8", "9">>

\* Number.prototype.toString for the counts that occur
NumberToString(n) ==
    IF n < 10 THEN <<Digit[n + 1]>>
    ELSE <<Digit[(n \div 10) + 1], Digit[(n % 10) + 1]>>

DigitValue(c) == CHOOSE d \in 0..9 : Digit[d + 1] = c

RECURSIVE parseInt(_)
parseInt(s) ==
    IF Len(s) = 0 THEN 0
    ELSE 10 * parseInt(SubSeq(s, 1, Len(s) - 1)) + DigitValue(s[Len(s)])

\* storedCount ? parseInt(storedCount) : 0
StoredCount(item) == IF item = <<>> THEN 0 ELSE parseInt(item[1])

Max(a, b) == IF a > b THEN a ELSE b

\* getQuotaStatus, step 2: the count it reads for userId (<<>> is a guest)
CurrentCount(q, userId) ==
    IF userId # <<>> THEN q.usage[q.today]
    ELSE IF q.guestDate = <<q.today>> THEN StoredCount(q.guestCount)
    ELSE 0

\* getQuotaStatus: what it writes (a guest's new day resets the two keys)
AfterQuotaStatus(q, userId) ==
    IF userId = <<>> /\ q.guestDate # <<q.today>>
    THEN [q EXCEPT !.guestDate = <<q.today>>, !.guestCount = <<NumberToString(0)>>]
    ELSE q

\* getQuotaStatus: what it returns
getQuotaStatus(q, userId) ==
    LET remaining == Max(0, FREE_SCAN_LIMIT - CurrentCount(q, userId))
    IN [canScan |-> remaining > 0, remaining |-> remaining,
        total |-> FREE_SCAN_LIMIT, isPro |-> FALSE]

\* session?.user?.id of the current render
SessionUser(q) == IF q.signedIn THEN <<"user">> ELSE <<>>

\* session?.user?.id inside handleMealCapture, handleProductScanned and the
\* refreshQuota they call: useCallback(..., []) keeps the closure of the first
\* render, where session is null
StaleSessionUser == <<>>

\* The effect on [authInitialized, session, currentScreen]: refreshQuota()
ScreenChanged(q, screen) ==
    IF screen = q.screen THEN q
    ELSE [AfterQuotaStatus(q, SessionUser(q)) EXCEPT !.screen = screen]

NoScans == [d \in 1..MaxDays |-> 0]

QuotaOff ==
    quota = [signedIn |-> FALSE, today |-> 0, guestDate |-> <<>>, guestCount |-> <<>>,
             usage |-> <<>>, screen |-> "off", calls |-> {}, captures |-> 0,
             counted |-> <<>>, completed |-> <<>>, last |-> <<>>]

\* On the home screen on day 1: a signed-in user with no usage row, a guest
\* who has not scanned yet, or a guest who has scanned earlier today
QuotaInit ==
    \E signedIn \in BOOLEAN, earlier \in {0, FREE_SCAN_LIMIT - 1} :
        /\ signedIn => earlier = 0
        /\ quota = [signedIn |-> signedIn, today |-> 1,
                    guestDate |-> IF earlier = 0 THEN <<>> ELSE <<1>>,
                    guestCount |-> IF earlier = 0 THEN <<>>
                                   ELSE <<NumberToString(earlier)>>,
                    usage |-> NoScans, screen |-> "home", calls |-> {},
                    captures |-> 0,
                    counted |-> [NoScans EXCEPT ![1] = earlier],
                    completed |-> [NoScans EXCEPT ![1] = earlier],
                    last |-> <<>>]

\* handleScanMeal and handleScanProduct (the home screen's two buttons) with
\* the quota they read: the screen that follows
AfterHomeButton(q, target) ==
    ScreenChanged(AfterQuotaStatus(q, SessionUser(q)),
                  IF getQuotaStatus(q, SessionUser(q)).canScan
                  THEN target ELSE "paywall")

QuotaScanMeal ==
    /\ quota.screen = "home"
    /\ quota' = AfterHomeButton(quota, "camera")
    /\ UNCHANGED nonQuotaVars

QuotaScanProduct ==
    /\ quota.screen = "home"
    /\ quota' = AfterHomeButton(quota, "grocery-scanner")
    /\ UNCHANGED nonQuotaVars

\* handleTabChange for the tabs 'home' and 'scan'; the tab bar is shown on
\* the home and result screens
QuotaTabChange ==
    \E tab \in {"home", "scan"} :
        /\ quota.screen \in {"home", "result"}
        /\ quota' = ScreenChanged(quota, IF tab = "home" THEN "home" ELSE "camera")
        /\ UNCHANGED nonQuotaVars

QuotaBack ==
    /\ quota.screen \in {"camera", "grocery-scanner", "paywall", "result"}
    /\ quota' = ScreenChanged(quota, "home")
    /\ UNCHANGED nonQuotaVars

\* handleMealCapture or handleProductScanned is called: incrementScanCount
\* computes today and starts its first read
Capture ==
    /\ quota.screen \in {"camera", "grocery-scanner"}
    /\ quota.captures < MaxCaptures
    /\ quota' = [quota EXCEPT
                    !.captures = @ + 1,
                    !.calls = @ \cup {[id |-> quota.captures + 1,
                                       userId |-> StaleSessionUser,
                                       day |-> quota.today,
                                       stage |-> "reading", read |-> 0]},
                    !.last = <<getQuotaStatus(quota, SessionUser(quota)).canScan>>]
    /\ UNCHANGED nonQuotaVars

\* incrementScanCount: the select of the usage row, or getItem of the count
IncrementRead ==
    \E c \in quota.calls :
        /\ c.stage = "reading"
        /\ LET read == IF c.userId # <<>> THEN quota.usage[c.day]
                       ELSE StoredCount(quota.guestCount)
           IN quota' = [quota EXCEPT
                           !.calls = (@ \ {c}) \cup
                               {[c EXCEPT !.stage = "writing", !.read = read]}]
        /\ UNCHANGED nonQuotaVars

\* incrementScanCount: the update or insert, or the two setItem calls
IncrementWrite ==
    \E c \in quota.calls :
        /\ c.stage = "writing"
        /\ LET written ==
                   IF c.userId # <<>>
                   THEN [quota EXCEPT !.usage[c.day] = c.read + 1]
                   ELSE [quota EXCEPT
                            !.guestCount = <<NumberToString(c.read + 1)>>,
                            !.guestDate = <<c.day>>]
           IN quota' = [written EXCEPT
                           !.calls = (@ \ {c}) \cup {[c EXCEPT !.stage = "counted"]},
                           !.counted[c.day] = @ + 1]
        /\ UNCHANGED nonQuotaVars

\* The rest of the capture handler: await refreshQuota(), the analysis, and
\* setCurrentScreen('result')
CaptureDone ==
    \E c \in quota.calls :
        /\ c.stage = "counted"
        /\ LET q == AfterQuotaStatus(quota, StaleSessionUser)
           IN quota' = ScreenChanged([q EXCEPT !.calls = @ \ {c},
                                              !.completed[c.day] = @ + 1],
                                    "result")
        /\ UNCHANGED nonQuotaVars

\* Midnight (UTC) passes
NextDay ==
    /\ quota.today < MaxDays
    /\ quota' = [quota EXCEPT !.today = @ + 1]
    /\ UNCHANGED nonQuotaVars

QuotaNext ==
    \/ QuotaScanMeal
    \/ QuotaScanProduct
    \/ QuotaTabChange
    \/ QuotaBack
    \/ Capture
    \/ IncrementRead
    \/ IncrementWrite
    \/ CaptureDone
    \/ NextDay

(***************************************************************************)
(* The App component (App.tsx) and the ResultScreen it renders             *)
(* (screens/ResultScreen.tsx).  The user is signed in and past onboarding; *)
(* confidences are in hundredths.                                          *)
(***************************************************************************)

\* Bound: how many scans are started
MaxScans == 2

S_bread == <<"b","r","e","a","d">>
S_olive_oil == <<"o","l","i","v","e"," ","o","i","l">>

\* MOCK_RESULT
MOCK_RESULT ==
    [score |-> 82, verdict |-> "safe",
     macros |-> [net_carbs |-> 800, fat |-> 4500, protein |-> 3200,
                 calories |-> 520, fiber |-> <<>>],
     swapSuggestion |-> Suggestion("Great choice! This meal fits well within your keto goals."),
     foods |-> <<"Mock Food">>,
     plateConfidence |-> 100]

\* What analyzePhoto resolves to in the explored runs
VisionResults ==
    {[score |-> 35, verdict |-> "avoid",
      macros |-> [net_carbs |-> 4000, fat |-> 500, protein |-> 300,
                  calories |-> 220, fiber |-> <<>>],
      swapSuggestion |-> Suggestion("Try a sugar-free version."),
      foods |-> <<[name |-> S_sugar, confidence |-> 90, carb_risk |-> "high",
                   is_keto_offender |-> TRUE],
                  [name |-> S_bread, confidence |-> 60, carb_risk |-> "medium",
                   is_keto_offender |-> TRUE]>>,
      plateConfidence |-> 60],
     [score |-> 88, verdict |-> "safe",
      macros |-> [net_carbs |-> 100, fat |-> 9000, protein |-> 0,
                  calories |-> 800, fiber |-> <<>>],
      swapSuggestion |-> Suggestion("Pair it with leafy greens."),
      foods |-> <<[name |-> S_olive_oil, confidence |-> 95, carb_risk |-> "low",
                   is_keto_offender |-> FALSE]>>,
      plateConfidence |-> 100]}

\* What lookupProduct handed to onProductScanned in the explored runs: two
\* incomplete products with label images, a complete one and one not found
ScannedProducts ==
    {lookupProductFromAPI(b, Directory(b)).value[1] :
        b \in {Rep("2", 13), Rep("2", 8), Rep("1", 8), Rep("3", 14)}}

NoEvent == [kind |-> "none", product |-> <<>>, prev |-> <<>>, refined |-> <<>>]

\* The tab bar is shown on these screens
TabBarScreens == {"home", "profile", "result", "history"}

\* The scans started so far: those counted in scanCount and those whose
\* handler has not reached setScanCount yet
StartedScans ==
    scanCount + Cardinality({t \in tasks : t.stage = "counting"})

\* score and verdict props of <ResultScreen>
ScoreProp(type, product, analysis) ==
    IF type = "product"
    THEN IF product = <<>> THEN 0 ELSE product[1].ketoScore
    ELSE IF analysis = <<>> THEN MOCK_RESULT.score ELSE analysis[1].score

VerdictProp(type, product, analysis) ==
    IF type = "product"
    THEN IF product = <<>> THEN "avoid" ELSE product[1].ketoVerdict
    ELSE IF analysis = <<>> THEN MOCK_RESULT.verdict ELSE analysis[1].verdict
\* useState(score), useState(verdict): the initial value is taken at mount
\* and kept over re-renders
ResultState(mounted, score, verdict) ==
    IF mounted # <<>> THEN mounted
    ELSE <<[currentScore |-> score, currentVerdict |-> verdict]>>

\* The ResultScreen instance after App has rendered: unmounted unless App
\* renders the result screen (the loader replaces every screen while
\* isAnalyzing)
Render(mounted, screen, analyzing, type, product, analysis) ==
    IF screen = "result" /\ ~analyzing
    THEN ResultState(mounted, ScoreProp(type, product, analysis),
                     VerdictProp(type, product, analysis))
    ELSE <<>>

\* Every step of App ends with a render of the new state
Rendered ==
    resultScreen' = Render(resultScreen, currentScreen', isAnalyzing', scanType',
                           productResult', analysisResult')

\* What the user sees on the result screen
Displayed ==
    IF resultScreen = <<>> THEN <<>>
    ELSE <<[score |-> resultScreen[1].currentScore,
            verdict |-> resultScreen[1].currentVerdict]>>

FoodNames(foods) == [i \in 1..Len(foods) |-> foods[i].name]

RefineAlsoResetsMacros(prev, product, refined) ==
    IF prev = <<>> \/ prev[1].barcode # product.barcode THEN prev
    ELSE <<[prev[1] EXCEPT
              !.ingredients = FoodNames(refined.foods),
              !.ketoScore = refined.score,
              !.ketoVerdict = refined.verdict,
              !.swapSuggestion = refined.swapSuggestion,
              !.macros = refined.macros,
              !.needsOCR = <<FALSE>>,
              !.source = "ocr"]>>

\* An update that does not compare barcodes
RefineIgnoresBarcode(prev, product, refined) ==
    IF prev = <<>> THEN prev
    ELSE <<[prev[1] EXCEPT
              !.ingredients = FoodNames(refined.foods),
              !.ketoScore = refined.score,
              !.ketoVerdict = refined.verdict,
              !.swapSuggestion = refined.swapSuggestion,
              !.needsOCR = <<FALSE>>,
              !.source = "ocr"]>>

\* The functional update of setProductResult after a successful refinement
Refine(prev, product, refined) ==
    IF prev = <<>> \/ prev[1].barcode # product.barcode THEN prev
    ELSE <<[prev[1] EXCEPT
              !.ingredients = FoodNames(refined.foods),
              !.ketoScore = refined.score,
              !.ketoVerdict = refined.verdict,
              !.swapSuggestion = refined.swapSuggestion,
              !.needsOCR = <<FALSE>>,
              !.source = "ocr"]>>

\* product.imageIngredientsUrl || product.imageUrl
LabelImage(product) ==
    IF ~FalsyStr(product.imageIngredientsUrl) THEN product.imageIngredientsUrl
    ELSE product.imageUrl

AppInit ==
    /\ currentScreen = "home"
    /\ scanType = "meal"
    /\ analysisResult = <<>>
    /\ productResult = <<>>
    /\ isAnalyzing = FALSE
    /\ lastImage = "null"
    /\ scanCount = 0
    /\ resultScreen = <<>>
    /\ tasks = {}
    /\ lastEvent = NoEvent

\* A navigation step: only the screen changes
Navigate(screen) ==
    /\ currentScreen' = screen
    /\ UNCHANGED <<scanType, analysisResult, productResult, isAnalyzing,
                   lastImage, scanCount, tasks>>
    /\ lastEvent' = NoEvent
    /\ Rendered
    /\ UNCHANGED nonAppVars

\* getQuotaStatus answers canScan
handleScanMeal ==
    \E canScan \in BOOLEAN :
        /\ currentScreen = "home" /\ ~isAnalyzing
        /\ Navigate(IF ~canScan THEN "paywall" ELSE "camera")

handleScanProduct ==
    \E canScan \in BOOLEAN :
        /\ currentScreen = "home" /\ ~isAnalyzing
        /\ Navigate(IF ~canScan THEN "paywall" ELSE "grocery-scanner")

handleBack ==
    /\ currentScreen \in {"camera", "grocery-scanner", "result", "paywall"}
    /\ ~isAnalyzing
    /\ Navigate("home")

\* The user is signed in: scanCount >= 1 && !session is false
handleScanAgain ==
    /\ currentScreen = "result" /\ ~isAnalyzing
    /\ Navigate("home")

handleTabChange ==
    \E tab \in {"home", "scan", "history", "profile"} :
        /\ currentScreen \in TabBarScreens /\ ~isAnalyzing
        /\ Navigate(IF tab = "scan" THEN "camera" ELSE tab)

\* handleMealCapture is called and awaits the scan count
handleMealCapture ==
    /\ currentScreen = "camera" /\ ~isAnalyzing
    /\ StartedScans < MaxScans
    /\ tasks' = tasks \cup {[n |-> StartedScans + 1, kind |-> "meal",
                             stage |-> "counting", product |-> <<>>]}
    /\ lastEvent' = NoEvent
    /\ UNCHANGED <<currentScreen, scanType, analysisResult, productResult,
                   isAnalyzing, lastImage, scanCount>>
    /\ Rendered
    /\ UNCHANGED nonAppVars

\* ... the count is stored: the loader is shown and the image is preprocessed
MealCounted ==
    \E t \in tasks :
        /\ t.kind = "meal" /\ t.stage = "counting"
        /\ scanCount' = scanCount + 1
        /\ scanType' = "meal"
        /\ isAnalyzing' = TRUE
        /\ tasks' = (tasks \ {t}) \cup {[t EXCEPT !.stage = "preprocessing"]}
        /\ lastEvent' = NoEvent
        /\ UNCHANGED <<currentScreen, analysisResult, productResult, lastImage>>
        /\ Rendered
        /\ UNCHANGED nonAppVars

\* The catch and finally blocks of handleMealCapture
MealCatch(t, cause) ==
    /\ lastImage' = "uri"
    /\ analysisResult' = <<MOCK_RESULT>>
    /\ productResult' = <<>>
    /\ currentScreen' = "result"
    /\ isAnalyzing' = FALSE
    /\ tasks' = tasks \ {t}
    /\ lastEvent' = [NoEvent EXCEPT !.kind = cause]

\* preprocessLabelImage settles: with base64, or without it (it never throws)
MealPreprocessed ==
    \E t \in tasks, outcome \in {"base64", "none"} :
        /\ t.kind = "meal" /\ t.stage = "preprocessing"
        /\ IF outcome = "base64"
           THEN /\ lastImage' = "processed"
                /\ tasks' = (tasks \ {t}) \cup {[t EXCEPT !.stage = "analyzing"]}
                /\ lastEvent' = NoEvent
                /\ UNCHANGED <<currentScreen, analysisResult, productResult,
                               isAnalyzing>>
           ELSE MealCatch(t, "mealPreprocessFailed")
        /\ UNCHANGED <<scanType, scanCount>>
        /\ Rendered
        /\ UNCHANGED nonAppVars

\* analyzePhoto(base64, 'meal') settles
MealAnalyzed ==
    \E t \in tasks, threw \in BOOLEAN, result \in VisionResults :
        /\ t.kind = "meal" /\ t.stage = "analyzing"
        /\ IF ~threw
           THEN /\ analysisResult' = <<result>>
                /\ productResult' = <<>>
                /\ currentScreen' = "result"
                /\ isAnalyzing' = FALSE
                /\ tasks' = tasks \ {t}
                /\ lastEvent' = [NoEvent EXCEPT !.kind = "mealAnalyzed",
                                               !.refined = <<result>>]
                /\ UNCHANGED lastImage
           ELSE MealCatch(t, "mealAnalysisFailed")
        /\ UNCHANGED <<scanType, scanCount>>
        /\ Rendered
        /\ UNCHANGED nonAppVars

\* handleProductScanned is called with the product found by the scanner and
\* awaits the scan count
handleProductScanned ==
    \E product \in ScannedProducts :
        /\ currentScreen = "grocery-scanner" /\ ~isAnalyzing
        /\ StartedScans < MaxScans
        /\ tasks' = tasks \cup {[n |-> StartedScans + 1, kind |-> "product",
                                 stage |-> "counting", product |-> <<product>>]}
        /\ lastEvent' = NoEvent
        /\ UNCHANGED <<currentScreen, scanType, analysisResult, productResult,
                       isAnalyzing, lastImage, scanCount>>
        /\ Rendered
        /\ UNCHANGED nonAppVars

\* ... the count is stored: the product is shown, and the refinement is
\* started when the product needs OCR and has a label image
ProductCounted ==
    \E t \in tasks :
        /\ t.kind = "product" /\ t.stage = "counting"
        /\ scanCount' = scanCount + 1
        /\ scanType' = "product"
        /\ productResult' = t.product
        /\ analysisResult' = <<>>
        /\ currentScreen' = "result"
        /\ tasks' = IF Truthy(t.product[1].needsOCR)
                       /\ ~FalsyStr(LabelImage(t.product[1]))
                    THEN (tasks \ {t}) \cup {[t EXCEPT !.stage = "refining"]}
                    ELSE tasks \ {t}
        /\ lastEvent' = NoEvent
        /\ UNCHANGED <<isAnalyzing, lastImage>>
        /\ Rendered
        /\ UNCHANGED nonAppVars

\* analyzePhoto(imageUrl, 'product', true) settles
RefinementSettled ==
    \E t \in tasks, threw \in BOOLEAN, result \in VisionResults :
        /\ t.kind = "product" /\ t.stage = "refining"
        /\ productResult' = IF threw THEN productResult
                            ELSE Refine(productResult, t.product[1], result)
        /\ tasks' = tasks \ {t}
        /\ lastEvent' = [kind |-> IF threw THEN "refinementFailed" ELSE "refined",
                         product |-> t.product,
                         prev |-> productResult,
                         refined |-> IF threw THEN <<>> ELSE <<result>>]
        /\ UNCHANGED <<currentScreen, scanType, analysisResult, isAnalyzing,
                       lastImage, scanCount>>
        /\ Rendered
        /\ UNCHANGED nonAppVars

\* handleProductCapture is called: the loader is shown and the image is
\* preprocessed
handleProductCapture ==
    /\ currentScreen = "grocery-scanner" /\ ~isAnalyzing
    /\ StartedScans < MaxScans
    /\ scanCount' = scanCount + 1
    /\ isAnalyzing' = TRUE
    /\ tasks' = tasks \cup {[n |-> StartedScans + 1, kind |-> "capture",
                             stage |-> "preprocessing", product |-> <<>>]}
    /\ lastEvent' = NoEvent
    /\ UNCHANGED <<currentScreen, scanType, analysisResult, productResult, lastImage>>
    /\ Rendered
    /\ UNCHANGED nonAppVars

\* The catch and finally blocks of handleProductCapture
CaptureCatch(t, cause) ==
    /\ lastImage' = "uri"
    /\ analysisResult' = <<MOCK_RESULT>>
    /\ currentScreen' = "result"
    /\ isAnalyzing' = FALSE
    /\ tasks' = tasks \ {t}
    /\ lastEvent' = [NoEvent EXCEPT !.kind = cause]

CapturePreprocessed ==
    \E t \in tasks, outcome \in {"base64", "none"} :
        /\ t.kind = "capture" /\ t.stage = "preprocessing"
        /\ IF outcome = "base64"
           THEN /\ lastImage' = "processed"
                /\ tasks' = (tasks \ {t}) \cup {[t EXCEPT !.stage = "analyzing"]}
                /\ lastEvent' = NoEvent
                /\ UNCHANGED <<currentScreen, analysisResult, isAnalyzing>>
           ELSE CaptureCatch(t, "capturePreprocessFailed")
        /\ UNCHANGED <<scanType, productResult, scanCount>>
        /\ Rendered
        /\ UNCHANGED nonAppVars

\* analyzePhoto(base64, 'product') settles
CaptureAnalyzed ==
    \E t \in tasks, threw \in BOOLEAN, result \in VisionResults :
        /\ t.kind = "capture" /\ t.stage = "analyzing"
        /\ IF ~threw
           THEN /\ analysisResult' = <<result>>
                /\ currentScreen' = "result"
                /\ isAnalyzing' = FALSE
                /\ tasks' = tasks \ {t}
                /\ lastEvent' = [NoEvent EXCEPT !.kind = "captureAnalyzed",
                                               !.refined = <<result>>]
                /\ UNCHANGED lastImage
           ELSE CaptureCatch(t, "captureAnalysisFailed")
        /\ UNCHANGED <<scanType, productResult, scanCount>>
        /\ Rendered
        /\ UNCHANGED nonAppVars

AppNext ==
    \/ handleScanMeal
    \/ handleScanProduct
    \/ handleBack
    \/ handleScanAgain
    \/ handleTabChange
    \/ handleMealCapture
    \/ MealCounted
    \/ MealPreprocessed
    \/ MealAnalyzed
    \/ handleProductScanned
    \/ ProductCounted
    \/ RefinementSettled
    \/ handleProductCapture
    \/ CapturePreprocessed
    \/ CaptureAnalyzed

(***************************************************************************)
(* calculateProductScore applied to ingredient lists                       *)
(***************************************************************************)

\* Bounds: the length of the freely composed lists, and of the lists all of
\* whose permutations are scored
MaxIngredients == 3
MaxPermuted == 3

S_water == <<"w","a","t","e","r">>

\* Ingredients as they come from a label: offenders of several penalties,
\* one in upper case with a trailing space, one that includes two table
\* keys, and one that is no offender
IngredientPool ==
    {<<"s","u","g","a","r">>,
     <<"C","a","n","e"," ","S","u","g","a","r"," ">>,
     <<"w","h","e","a","t"," ","f","l","o","u","r">>,
     <<"h","i","g","h"," ","f","r","u","c","t","o","s","e"," ","c","o","r","n"," ","s","y","r","u","p">>,
     <<"n","a","t","u","r","a","l"," ","f","l","a","v","o","r","s">>,
     <<"w","a","t","e","r">>}

RECURSIVE ListsUpTo(_, _)
ListsUpTo(S, n) ==
    IF n = 0 THEN {<<>>}
    ELSE LET shorter == ListsUpTo(S, n - 1)
         IN shorter \cup {Append(l, x) : l \in {k \in shorter : Len(k) = n - 1}, x \in S}

\* list followed by 'water' up to n entries
Padded(list, n) ==
    [i \in 1..n |-> IF i <= Len(list) THEN list[i] ELSE S_water]

\* The ingredient lists scored: every list of up to MaxIngredients entries,
\* lists of exactly COUNT_THRESHOLD and COUNT_THRESHOLD + 1 entries, and lists
\* of one ingredient repeated until the penalties exceed 100
IngredientLists ==
    ListsUpTo(IngredientPool, MaxIngredients)
    \cup {Padded(l, n) : l \in ListsUpTo(IngredientPool, 2),
                          n \in {COUNT_THRESHOLD, COUNT_THRESHOLD + 1}}
    \cup {[i \in 1..n |-> x] : x \in IngredientPool, n \in {5, COUNT_THRESHOLD + 1}}

\* The same entries in another order: every permutation of a short list, every
\* exchange of two entries of a longer one
Reorderings(list) ==
    IF Len(list) <= MaxPermuted
    THEN {[i \in 1..Len(list) |-> list[p[i]]] : p \in Permutations(1..Len(list))}
    ELSE {[list EXCEPT ![i] = list[j], ![j] = list[i]] :
             i \in 1..Len(list), j \in 1..Len(list)}

\* list with a second copy of one of its entries appended
WithCopy(list) == {Append(list, list[i]) : i \in 1..Len(list)}

NotScored == [kind |-> "none", ingredients |-> <<>>, result |-> <<>>]

ScoringOff == scoring = [ingredients |-> <<>>, result |-> <<>>, other |-> NotScored]

ScoringInit ==
    scoring \in [ingredients : IngredientLists, result : {<<>>}, other : {NotScored}]

\* calculateProductScore(ingredients) is called
ScoreProduct ==
    /\ scoring.result = <<>>
    /\ scoring' = [scoring EXCEPT !.result = <<calculateProductScore(scoring.ingredients)>>]
    /\ UNCHANGED nonScoringVars

\* calculateProductScore is called again, with the same entries in another
\* order
ScoreReordered ==
    \E list \in Reorderings(scoring.ingredients) :
        /\ scoring.result # <<>>
        /\ scoring.other = NotScored
        /\ scoring' = [scoring EXCEPT !.other =
                          [kind |-> "reordered", ingredients |-> list,
                           result |-> <<calculateProductScore(list)>>]]
        /\ UNCHANGED nonScoringVars

\* calculateProductScore is called again, with a second copy of one entry
ScoreWithCopy ==
    \E list \in WithCopy(scoring.ingredients) :
        /\ scoring.result # <<>>
        /\ scoring.other = NotScored
        /\ scoring' = [scoring EXCEPT !.other =
                          [kind |-> "copy", ingredients |-> list,
                           result |-> <<calculateProductScore(list)>>]]
        /\ UNCHANGED nonScoringVars

ScoringNext == ScoreProduct \/ ScoreReordered \/ ScoreWithCopy

(***************************************************************************)
(* lookupProductFromAPI applied to directory answers                       *)
(***************************************************************************)

\* Bound: the largest amount per 100 g in a directory answer, in hundredths
\* of a gram
MaxGrams == 3000

\* carbohydrates_100g and fiber_100g of the answers: absent, or around the
\* limits of the second pass
CarbValues == {<<>>} \cup {<<g>> : g \in {0, 500, 501, 1000, 1001, 2000, 2001, MaxGrams}}

FiberValues == {<<>>} \cup {<<g>> : g \in {0, 100, MaxGrams + 500}}

\* ingredients_text of the answers: absent, and texts scored 100, 75 and 20
LabelTexts ==
    {NoText,
     Text(<<"w","a","t","e","r">>),
     Text(<<"s","u","g","a","r",","," ","w","a","t","e","r">>),
     Text(<<"S","u","g","a","r",";"," ","s","u","g","a","r",","," ","s","u","g","a","r"," ",";","n","a","t","u","r","a","l"," ","f","l","a","v","o","r","s">>)}

\* nutriments with fat_100g and the optional carbohydrates_100g and fiber_100g
NutrimentsOf(carbs, fiber) ==
    [k \in {"fat_100g"}
            \cup (IF carbs = <<>> THEN {} ELSE {"carbohydrates_100g"})
            \cup (IF fiber = <<>> THEN {} ELSE {"fiber_100g"}) |->
        IF k = "fat_100g" THEN 1000
        ELSE IF k = "carbohydrates_100g" THEN carbs[1] ELSE fiber[1]]

\* The products the directory answers with
OffProducts ==
    {OffProduct("Snack", "KetoCo", <<c>>, NutrimentsOf(carbs, fiber), text,
                "front.jpg", "undefined") :
        c \in {30, 50, 100}, carbs \in CarbValues, fiber \in FiberValues,
        text \in LabelTexts}

OffLookupOff == offLookup = [barcode |-> <<>>, product |-> NoProduct, result |-> <<>>]

OffLookupInit ==
    offLookup \in [barcode : {Rep("9", 8)}, product : OffProducts, result : {<<>>}]

\* lookupProductFromAPI(barcode) resolves with the directory's answer
LookupFromAPI ==
    /\ offLookup.result = <<>>
    /\ offLookup' = [offLookup EXCEPT !.result =
           lookupProductFromAPI(offLookup.barcode,
                                Json(1, TRUE, offLookup.product)).value]
    /\ UNCHANGED nonOffLookupVars

OffLookupNext == LookupFromAPI

(***************************************************************************)
(* Vision analysis: analyzePhoto (services/aiService) and the analyze-food *)
(* function.  Both API keys are configured.  The text a back end answers   *)
(* with is one of: "object", a JSON object and nothing else; "fenced", a   *)
(* JSON object inside other text; "broken", braces around text that is not *)
(* JSON; "prose", text without braces; "empty", no content.  Confidences   *)
(* are in hundredths.                                                      *)
(***************************************************************************)

\* Bounds: the detected items in an answer, and the photos analysed in a row
MaxFoods == 2
MaxPhotos == 2

S_bacon == <<"b","a","c","o","n">>

\* KETO_FOOD_DB: key, name and confidence, in source order
KETO_FOOD_DB == <<
    [key |-> <<"a","v","o","c","a","d","o">>, name |-> "Avocado", confidence |-> 95],
    [key |-> <<"e","g","g">>, name |-> "Egg", confidence |-> 98],
    [key |-> <<"r","i","b","e","y","e"," ","s","t","e","a","k">>, name |-> "Ribeye Steak", confidence |-> 92],
    [key |-> <<"s","a","l","m","o","n">>, name |-> "Salmon", confidence |-> 95],
    [key |-> <<"s","p","i","n","a","c","h">>, name |-> "Spinach", confidence |-> 98],
    [key |-> <<"b","u","t","t","e","r">>, name |-> "Butter", confidence |-> 99],
    [key |-> <<"o","l","i","v","e"," ","o","i","l">>, name |-> "Olive Oil", confidence |-> 100],
    [key |-> <<"b","a","c","o","n">>, name |-> "Bacon", confidence |-> 90]
>>

\* lookupFood(name): the first entry whose key the normalized name includes
\* or is included in, <<>> for null
lookupFood(name) ==
    LET normalized == Trim(ToLowerCase(name))
        hits == {k \in 1..Len(KETO_FOOD_DB) :
                    \/ Includes(normalized, KETO_FOOD_DB[k].key)
                    \/ Includes(KETO_FOOD_DB[k].key, normalized)}
    IN IF hits = {} THEN <<>>
       ELSE <<KETO_FOOD_DB[CHOOSE k \in hits : \A j \in hits : k <= j]>>

\* The names appended to data.reasoning as ' (Verified: name)', in order
RECURSIVE VerifiedNames(_)
VerifiedNames(foods) ==
    IF foods = <<>> THEN <<>>
    ELSE LET match == lookupFood(foods[1].name)
         IN (IF match # <<>> /\ match[1].confidence > 90
             THEN <<match[1].name>> ELSE <<>>) \o VerifiedNames(Tail(foods))

Min(a, b) == IF a < b THEN a ELSE b

\* The loop of analyzePhoto over data.foods: Math.min from 1.0 over the
\* items of high or medium carb risk
RECURSIVE MinCarbConfidence(_)
MinCarbConfidence(foods) ==
    IF foods = <<>> THEN 100
    ELSE LET rest == MinCarbConfidence(Tail(foods))
         IN IF foods[1].carb_risk \in {"high", "medium"}
            THEN Min(foods[1].confidence, rest) ELSE rest

\* analyze-food: Math.min(...carbRiskyFoods.map(f => f.confidence || 1)),
\* 1.0 when there is no risky item
RECURSIVE FunctionPlateConfidence(_)
FunctionPlateConfidence(foods) ==
    IF foods = <<>> THEN 100
    ELSE LET rest == FunctionPlateConfidence(Tail(foods))
             c == IF foods[1].confidence = 0 THEN 100 ELSE foods[1].confidence
         IN IF foods[1].carb_risk \in {"high", "medium"} THEN Min(c, rest) ELSE rest

\* The detected items of the answers
DetectedFoods ==
    {[name |-> S_olive_oil, confidence |-> 30, carb_risk |-> "low"],
     [name |-> S_bread, confidence |-> 0, carb_risk |-> "high"],
     [name |-> S_bread, confidence |-> 60, carb_risk |-> "high"],
     [name |-> S_bacon, confidence |-> 80, carb_risk |-> "medium"]}

\* The JSON objects a back end answers with; a key that is absent is <<>>
VisionObjects ==
    [score : {<<>>, <<85>>, <<150>>},
     verdict : {<<"safe">>, <<"avoid">>},
     foods : {<<>>} \cup {<<l>> : l \in ListsUpTo(DetectedFoods, MaxFoods)}]

EmptyObject == [score |-> <<>>, verdict |-> <<>>, foods |-> <<>>]

VisionAnswers ==
    [kind : {"object", "fenced"}, data : VisionObjects]
    \cup [kind : {"broken", "prose", "empty"}, data : {EmptyObject}]

\* responseText.match(/\{[\s\S]*\}/): the text from the first to the last brace
JsonMatch(answer) ==
    IF answer.kind \in {"object", "fenced", "broken"} THEN <<answer>> ELSE <<>>

\* JSON.parse of the whole text
ParseText(answer) ==
    IF answer.kind = "object" THEN Return(answer.data) ELSE Throw

\* JSON.parse of the matched part of the text
ParseMatch(answer) ==
    IF answer.kind \in {"object", "fenced"} THEN Return(answer.data) ELSE Throw

parseJSONResponse(answer) ==
    IF JsonMatch(answer) = <<>> THEN Throw ELSE ParseMatch(answer)

\* The end of analyzeWithOpenAI: empty content throws, else JSON.parse(content)
analyzeWithOpenAI(answer) ==
    IF answer.kind = "empty" THEN Throw ELSE ParseText(answer)

analyzeWithGemini(answer) == parseJSONResponse(answer)

\* analyzePhoto after the driver has answered: the parsed object with the
\* verified names noted in its reasoning and plateConfidence set
analyzePhoto(driver, answer) ==
    LET parsed == IF driver = "openai" THEN analyzeWithOpenAI(answer)
                  ELSE analyzeWithGemini(answer)
    IN IF parsed.threw THEN Throw
       ELSE LET data == parsed.value[1]
                foods == IF data.foods = <<>> THEN <<>> ELSE data.foods[1]
            IN Return([score |-> data.score, verdict |-> data.verdict,
                       foods |-> data.foods,
                       verified |-> VerifiedNames(foods),
                       plateConfidence |-> <<MinCarbConfidence(foods)>>])

\* The analyze-food function: its HTTP response, 200 with the result or 500
\* with an error
analyzeFood(driver, answer) ==
    LET parsed == IF driver = "openai"
                  THEN (IF answer.kind = "empty" THEN Return(EmptyObject)
                        ELSE ParseText(answer))
                  ELSE (IF JsonMatch(answer) = <<>> THEN Return(EmptyObject)
                        ELSE ParseMatch(answer))
    IN IF parsed.threw THEN [status |-> 500, body |-> <<>>]
       ELSE LET data == parsed.value[1]
                foods == IF data.foods = <<>> THEN <<>> ELSE data.foods[1]
            IN [status |-> 200,
                body |-> <<[score |-> data.score, verdict |-> data.verdict,
                            foods |-> data.foods,
                            plateConfidence |-> <<FunctionPlateConfidence(foods)>>]>>]

NoAnswer == [kind |-> "empty", data |-> EmptyObject]

VisionOff ==
    vision = [photo |-> 0, driver |-> "gemini", answer |-> NoAnswer,
              client |-> <<>>, function |-> <<>>, returned |-> {}]

VisionInit == VisionOff

\* A photo is taken; the driver is chosen by the scan type, and the back end
\* answers
NextPhoto ==
    \E driver \in {"gemini", "openai"}, answer \in VisionAnswers :
        /\ vision.photo < MaxPhotos
        /\ vision.photo > 0 => (vision.client # <<>> /\ vision.function # <<>>)
        /\ vision' = [vision EXCEPT !.photo = @ + 1, !.driver = driver,
                                    !.answer = answer,
                                    !.client = <<>>, !.function = <<>>]
        /\ UNCHANGED nonVisionVars

\* analyzePhoto settles
AnalyzePhoto ==
    /\ vision.photo > 0 /\ vision.client = <<>>
    /\ LET done == analyzePhoto(vision.driver, vision.answer)
       IN vision' = [vision EXCEPT
              !.client = <<done>>,
              !.returned = IF done.threw THEN @
                           ELSE @ \cup {[score |-> done.value[1].score,
                                         verdict |-> done.value[1].verdict]}]
    /\ UNCHANGED nonVisionVars

\* The analyze-food function responds
AnalyzeFood ==
    /\ vision.photo > 0 /\ vision.function = <<>>
    /\ vision' = [vision EXCEPT
           !.function = <<analyzeFood(vision.driver, vision.answer)>>]
    /\ UNCHANGED nonVisionVars

VisionNext == NextPhoto \/ AnalyzePhoto \/ AnalyzeFood

(***************************************************************************)
(* Corrections: ResultScreen.handleCorrections, the CorrectionSheet and    *)
(* ShadowDbService.submitCorrection.  App renders ResultScreen without     *)
(* scanId and without onRecalculate, so scanId is 'unknown' and the        *)
(* rebuilt list is dropped.  One handleCorrections call is in flight at a  *)
(* time, and the user does not reopen the sheet while it is.  An insert    *)
(* that the server answers with an error is only logged, so the handler    *)
(* goes on in the same way.                                                *)
(***************************************************************************)

\* Bounds: the detected items on the screen, and the submissions of the sheet
MaxPlate == 2
MaxSubmissions == 1
MaxResubmissions == 2

S_RemoveItem == <<"R","e","m","o","v","e"," ","i","t","e","m">>
S_MarkAsCorrect == <<"M","a","r","k"," ","a","s"," ","c","o","r","r","e","c","t">>

\* COMMON_REPLACEMENTS, in source order
COMMON_REPLACEMENTS == <<
    [key |-> <<"s","a","u","c","e">>,
     options |-> <<<<"B","u","t","t","e","r">>,
                  <<"O","l","i","v","e"," ","o","i","l">>,
                  <<"G","a","r","l","i","c"," ","b","u","t","t","e","r">>,
                  <<"C","h","e","e","s","e"," ","s","a","u","c","e">>,
                  <<"N","o"," ","s","a","u","c","e">>>>],
    [key |-> <<"r","i","c","e">>,
     options |-> <<<<"C","a","u","l","i","f","l","o","w","e","r"," ","r","i","c","e">>,
                  <<"R","i","c","e","d"," ","b","r","o","c","c","o","l","i">>,
                  <<"N","o"," ","r","i","c","e">>>>],
    [key |-> <<"b","r","e","a","d">>,
     options |-> <<<<"L","e","t","t","u","c","e"," ","w","r","a","p">>,
                  <<"C","l","o","u","d"," ","b","r","e","a","d">>,
                  <<"N","o"," ","b","r","e","a","d">>>>],
    [key |-> <<"p","o","t","a","t","o">>,
     options |-> <<<<"M","a","s","h","e","d"," ","c","a","u","l","i","f","l","o","w","e","r">>,
                  <<"T","u","r","n","i","p">>,
                  <<"N","o"," ","p","o","t","a","t","o">>>>],
    [key |-> <<"p","a","s","t","a">>,
     options |-> <<<<"Z","u","c","c","h","i","n","i"," ","n","o","o","d","l","e","s">>,
                  <<"S","h","i","r","a","t","a","k","i">>,
                  <<"S","p","a","g","h","e","t","t","i"," ","s","q","u","a","s","h">>>>],
    [key |-> <<"d","e","f","a","u","l","t">>,
     options |-> <<<<"R","e","m","o","v","e"," ","i","t","e","m">>,
                  <<"M","a","r","k"," ","a","s"," ","c","o","r","r","e","c","t">>>>]
>>

\* getReplacementOptions(foodName): the options of the first key the
\* lowercased name includes, those of 'default' when there is none
getReplacementOptions(foodName) ==
    LET lower == ToLowerCase(foodName)
        hits == {k \in 1..Len(COMMON_REPLACEMENTS) :
                    Includes(lower, COMMON_REPLACEMENTS[k].key)}
    IN IF hits = {} THEN COMMON_REPLACEMENTS[Len(COMMON_REPLACEMENTS)].options
       ELSE COMMON_REPLACEMENTS[CHOOSE k \in hits : \A j \in hits : k <= j].options

\* The CorrectionResult an option of the action sheet stands for
CorrectionFor(food, option) ==
    IF option = S_RemoveItem
    THEN [originalFood |-> food, action |-> "removed", replacementName |-> <<>>]
    ELSE IF option = S_MarkAsCorrect
    THEN [originalFood |-> food, action |-> "confirmed", replacementName |-> <<>>]
    ELSE [originalFood |-> food, action |-> "replaced", replacementName |-> <<option>>]

\* Map.set(food.name, value) on a Map kept as its values in insertion order
MapSet(corrections, value) ==
    LET same == {k \in 1..Len(corrections) :
                    corrections[k].originalFood.name = value.originalFood.name}
    IN IF same = {} THEN Append(corrections, value)
       ELSE [k \in 1..Len(corrections) |->
                IF k \in same THEN value ELSE corrections[k]]

\* plateConfidence < 0.65 || foods.some(f => f.carb_risk !== 'low' && f.confidence < 0.8)
shouldShowReviewPrompt(plateConfidence, foods) ==
    \/ plateConfidence < 65
    \/ \E k \in 1..Len(foods) : foods[k].carb_risk # "low" /\ foods[k].confidence < 80

\* corrections.find(c => c.originalFood.name === food.name), <<>> for undefined
FindCorrection(corrections, food) ==
    LET hits == {k \in 1..Len(corrections) :
                    corrections[k].originalFood.name = food.name}
    IN IF hits = {} THEN <<>>
       ELSE <<corrections[CHOOSE k \in hits : \A j \in hits : k <= j]>>

\* A mapper that also drops the items a 'replaced' decision names
ApplyCorrectionDropsReplaced(food, corrections) ==
    LET correction == FindCorrection(corrections, food)
    IN IF correction = <<>> THEN <<food>>
       ELSE IF correction[1].action \in {"removed", "replaced"} THEN <<>>
       ELSE <<food>>

\* The callback of foods.map: <<>> for null, else the item to keep
ApplyCorrection(food, corrections) ==
    LET correction == FindCorrection(corrections, food)
    IN IF correction = <<>> THEN <<food>>
       ELSE IF correction[1].action = "removed" THEN <<>>
       ELSE IF correction[1].action = "replaced" /\ correction[1].replacementName # <<>>
       THEN <<[food EXCEPT !.name = correction[1].replacementName[1]]>>
       ELSE <<food>>

\* foods.map(...).filter(Boolean)
RECURSIVE UpdatedFoods(_, _)
UpdatedFoods(foods, corrections) ==
    IF foods = <<>> THEN <<>>
    ELSE ApplyCorrection(foods[1], corrections) \o UpdatedFoods(Tail(foods), corrections)

IsRemoved(c) == c.action = "removed"

\* corrections.filter(c => c.action === 'removed').length
RemovedCount(corrections) == Len(SelectSeq(corrections, IsRemoved))

NewScore(currentScore, corrections) ==
    Min(100, currentScore + (RemovedCount(corrections) * 5))

NewVerdict(newScore, currentVerdict) ==
    IF newScore >= 75 /\ currentVerdict = "borderline" THEN "safe" ELSE currentVerdict

\* The row handed to submitCorrection for a decision
CorrectionEventOf(scanId, c) ==
    [product_id |-> scanId, scan_event_id |-> scanId, action |-> c.action,
     original_label |-> c.originalFood.name, corrected_label |-> c.replacementName]

\* A loop that logs only the decisions that remove an item
PendingInsertsRemovedOnly(corrections) == SelectSeq(corrections, IsRemoved)

\* for (const c of corrections): the decisions logged, in order
PendingInserts(corrections) == corrections

\* The detected items of the results shown
PlateFoods ==
    {[name |-> S_bacon, confidence |-> 30, carb_risk |-> "high"],
     [name |-> S_bread, confidence |-> 90, carb_risk |-> "low"]}

\* The score and verdict props of the results shown
ScoreProps ==
    {[score |-> 60, verdict |-> "borderline"], [score |-> 70, verdict |-> "borderline"],
     [score |-> 70, verdict |-> "avoid"], [score |-> 78, verdict |-> "borderline"],
     [score |-> 96, verdict |-> "safe"]}

IdleHandler == [pc |-> "idle", corrections |-> <<>>, issued |-> 0]

\* ResultScreen as mounted with the given props
Mounted(foods, props) ==
    [foods |-> foods, plateConfidence |-> MinCarbConfidence(foods), scanId |-> "unknown",
     currentScore |-> props.score, currentVerdict |-> props.verdict,
     showCorrectionSheet |-> FALSE, corrections |-> <<>>,
     handler |-> IdleHandler, submissions |-> 0, last |-> <<>>]

CorrectionsOff ==
    /\ review = Mounted(<<>>, [score |-> 0, verdict |-> "avoid"])
    /\ insertsIssued = <<>>

CorrectionsInit ==
    /\ review \in {Mounted(foods, props) :
                        foods \in ListsUpTo(PlateFoods, MaxPlate), props \in ScoreProps}
    /\ insertsIssued = <<>>

\* The 'Tap to review' prompt is pressed
OpenCorrectionSheet ==
    /\ shouldShowReviewPrompt(review.plateConfidence, review.foods)
    /\ Len(review.foods) > 0
    /\ ~review.showCorrectionSheet
    /\ review.handler.pc = "idle"
    /\ review' = [review EXCEPT !.showCorrectionSheet = TRUE]
    /\ UNCHANGED <<insertsIssued, nonCorrectionsVars>>

\* onClose: the backdrop or the X is pressed
CloseCorrectionSheet ==
    /\ review.showCorrectionSheet
    /\ review' = [review EXCEPT !.showCorrectionSheet = FALSE]
    /\ UNCHANGED <<insertsIssued, nonCorrectionsVars>>

\* An item is pressed and an option of its action sheet is chosen
handleAction ==
    /\ review.showCorrectionSheet
    /\ \E k \in 1..Len(review.foods) :
         \E option \in {getReplacementOptions(review.foods[k].name)[j] :
                            j \in 1..Len(getReplacementOptions(review.foods[k].name))} :
            review' = [review EXCEPT
                !.corrections = MapSet(@, CorrectionFor(review.foods[k], option))]
    /\ UNCHANGED <<insertsIssued, nonCorrectionsVars>>

\* The rest of handleCorrections once every insert has settled: the list is
\* rebuilt, then the score and the verdict are set
Corrected(screen, corrections, issued) ==
    LET newScore == NewScore(screen.currentScore, corrections)
    IN [screen EXCEPT
           !.currentScore = newScore,
           !.currentVerdict = NewVerdict(newScore, screen.currentVerdict),
           !.handler = IdleHandler,
           !.last = <<[corrections |-> corrections, foods |-> screen.foods,
                       updatedFoods |-> UpdatedFoods(screen.foods, corrections),
                       score |-> screen.currentScore, verdict |-> screen.currentVerdict,
                       issued |-> issued]>>]

\* onCorrect(Array.from(corrections.values())), which runs handleCorrections
\* up to its first await, then onClose()
SubmitStep ==
    /\ review.showCorrectionSheet
    /\ review.handler.pc = "idle"
    /\ LET corrections == review.corrections
           pending == PendingInserts(corrections)
           closed == [review EXCEPT !.showCorrectionSheet = FALSE,
                                    !.submissions = @ + 1]
       IN IF pending = <<>>
          THEN /\ review' = Corrected(closed, corrections, <<>>)
               /\ UNCHANGED insertsIssued
          ELSE /\ review' = [closed EXCEPT
                      !.handler = [pc |-> "logging", corrections |-> corrections,
                                   issued |-> 1]]
               /\ insertsIssued' =
                      Append(insertsIssued, CorrectionEventOf(review.scanId, pending[1]))
    /\ UNCHANGED nonCorrectionsVars

\* 'Update Results' is pressed
handleSubmit ==
    /\ review.submissions < MaxSubmissions
    /\ SubmitStep

\* 'Update Results' is pressed on a sheet that was submitted before and
\* opened again
handleResubmit ==
    /\ review.submissions >= MaxSubmissions
    /\ review.submissions < MaxResubmissions
    /\ SubmitStep

\* The insert awaited by submitCorrection settles: the loop issues the next
\* one, or handleCorrections goes on after the loop
InsertSettled ==
    /\ review.handler.pc = "logging"
    /\ LET corrections == review.handler.corrections
           pending == PendingInserts(corrections)
           n == review.handler.issued
       IN IF n < Len(pending)
          THEN /\ review' = [review EXCEPT !.handler.issued = n + 1]
               /\ insertsIssued' =
                      Append(insertsIssued, CorrectionEventOf(review.scanId, pending[n + 1]))
          ELSE /\ review' = Corrected(review, corrections,
                                      SubSeq(insertsIssued, Len(insertsIssued) - n + 1,
                                             Len(insertsIssued)))
               /\ UNCHANGED insertsIssued
    /\ UNCHANGED nonCorrectionsVars

CorrectionsNext ==
    \/ OpenCorrectionSheet
    \/ CloseCorrectionSheet
    \/ handleAction
    \/ handleSubmit
    \/ InsertSettled

\* The same screen with the sheet submitted more than once
ResubmitNext ==
    \/ OpenCorrectionSheet
    \/ CloseCorrectionSheet
    \/ handleAction
    \/ handleSubmit
    \/ handleResubmit
    \/ InsertSettled

(***************************************************************************)
(* calculateMealScore (services/ketoScoring).  Macros are whole grams.     *)
(* The score before rounding is kept exactly, as a numerator over the      *)
(* denominator 2 * carbLimit * totalMacros (2 * carbLimit when the macros  *)
(* sum to 0).                                                              *)
(***************************************************************************)

\* The default of the carbLimit parameter
DefaultCarbLimit == 20

\* The macros and limits scored
MealMacros ==
    [net_carbs : {0, 8, 11, 20, 30, 60}, fat : {0, 45, 70}, protein : {0, 32}]

CarbLimits == {DefaultCarbLimit, 50}

\* The denominator all penalties are brought to
Denominator(macros, carbLimit) ==
    LET totalMacros == macros.fat + macros.protein + macros.net_carbs
    IN 2 * carbLimit * (IF totalMacros > 0 THEN totalMacros ELSE 1)

\* The penalty on carbRatio = net_carbs / carbLimit, over Denominator:
\* min(50, (carbRatio - 1) * 50) above 1, (carbRatio - 0.5) * 30 above 0.5
CarbLimitPenalty(macros, carbLimit) ==
    LET d == Denominator(macros, carbLimit)
        u == d \div (2 * carbLimit)
    IN IF macros.net_carbs > carbLimit
       THEN Min(50 * d, 100 * u * (macros.net_carbs - carbLimit))
       ELSE IF 2 * macros.net_carbs > carbLimit
       THEN 30 * u * ((2 * macros.net_carbs) - carbLimit)
       ELSE 0

\* (60 - fatPercent) * 0.5 when fatPercent < 60, over Denominator
FatPercentPenalty(macros, carbLimit) ==
    LET totalMacros == macros.fat + macros.protein + macros.net_carbs
    IN IF totalMacros > 0 /\ 100 * macros.fat < 60 * totalMacros
       THEN carbLimit * ((60 * totalMacros) - (100 * macros.fat))
       ELSE 0

\* (carbPercent - 10) * 2 when carbPercent > 10, over Denominator
CarbPercentPenalty(macros, carbLimit) ==
    LET totalMacros == macros.fat + macros.protein + macros.net_carbs
    IN IF totalMacros > 0 /\ 100 * macros.net_carbs > 10 * totalMacros
       THEN 4 * carbLimit * ((100 * macros.net_carbs) - (10 * totalMacros))
       ELSE 0

\* Math.round(n / d), d > 0: the nearest integer, halves upwards
MathRound(n, d) == ((2 * n) + d) \div (2 * d)

calculateMealScore(macros, carbLimit) ==
    LET d == Denominator(macros, carbLimit)
        n == (100 * d) - CarbLimitPenalty(macros, carbLimit)
                       - FatPercentPenalty(macros, carbLimit)
                       - CarbPercentPenalty(macros, carbLimit)
        score == Clamp(MathRound(n, d))
    IN [score |-> score, verdict |-> getVerdict(score), confidence |-> "medium"]

MealOff ==
    meal = [macros |-> [net_carbs |-> 0, fat |-> 0, protein |-> 0],
            carbLimit |-> DefaultCarbLimit, result |-> <<>>]

MealInit ==
    meal \in [macros : MealMacros, carbLimit : CarbLimits, result : {<<>>}]

ScoreMeal ==
    /\ meal.result = <<>>
    /\ meal' = [meal EXCEPT !.result = <<calculateMealScore(meal.macros, meal.carbLimit)>>]
    /\ UNCHANGED nonMealVars

MealNext == ScoreMeal

(***************************************************************************)
(* Properties of lookupProduct                                             *)
(***************************************************************************)

Verdicts == {"safe", "borderline", "avoid", "unknown"}

\* The invocations in progress, and the one that finished last with its locals
Invocations == {calls[c] : c \in {d \in CallIds : ~Finished(calls[d])}} \cup {lastReturn}

IsProductData(r) ==
    /\ r.found \in BOOLEAN
    /\ r.ketoScore \in 0..100
    /\ r.ketoVerdict \in Verdicts
    /\ r.source \in {"shadow", "api", "ocr", "manual"}
    /\ r.barcode \in ScannedBarcodes

WellFormed(barcode) ==
    /\ Len(barcode) >= 8
    /\ Len(barcode) <= 14
    /\ \A i \in 1..Len(barcode) : barcode[i] \in DigitChars

\* C2: an invocation goes past validation iff its barcode is a string of 8 to
\* 14 digits; with any other barcode it has returned found=false, verdict
\* 'avoid', and made no cache lookup, no directory fetch and no cache save.
C2_ValidationGate ==
    \A call \in Invocations :
        call.pc # "idle" =>
            IF WellFormed(call.barcode)
            THEN call.pc = "lookup" \/ call.nLookup = 1
            ELSE /\ call.pc = "done"
                 /\ ~call.result[1].found
                 /\ call.result[1].ketoVerdict = "avoid"
                 /\ call.nLookup = 0 /\ call.nFetch = 0 /\ call.nSave = 0

\* Both sides of the gate: a 15-digit barcode was rejected and a 14-digit one
\* went on to the cache lookup.
C2_Witness ==
    /\ lastReturn.pc = "done"
    /\ lastReturn.barcode = Rep("1", 15)
    /\ ~lastReturn.result[1].found
    /\ \E c \in CallIds :
          /\ calls[c].barcode = Rep("3", 14)
          /\ calls[c].nLookup = 1

\* C3: a cache lookup that returns a record with a keto analysis ends the
\* invocation with found=true, the record's keto_score and verdict, no
\* directory fetch and no saveProduct; a cache lookup that fails or throws is
\* ignored and the directory fetch follows.
C3_CacheHit ==
    \A call \in Invocations :
        /\ (/\ call.nLookup = 1
            /\ call.select = "ok"
            /\ call.cached # <<>>
            /\ call.cached[1].keto_analysis # <<>>) =>
                /\ call.pc = "done"
                /\ call.result[1].found
                /\ call.result[1].ketoScore = call.cached[1].keto_analysis[1].keto_score
                /\ call.result[1].ketoVerdict = call.cached[1].keto_analysis[1].verdict
                /\ call.nFetch = 0
                /\ call.nSave = 0
        /\ call.select \in {"error", "throw"} =>
                /\ call.pc # "threw"
                /\ call.pc = "fetch" \/ call.nFetch = 1

\* A resolution served from the cache.
C3_Witness ==
    /\ lastReturn.pc = "done"
    /\ lastReturn.select = "ok"
    /\ lastReturn.cached # <<>>
    /\ lastReturn.result[1].source = "shadow"
    /\ lastReturn.result[1].ketoScore = 70

\* C4: the products cache holds at most one record per (barcode, country_code).
C4_OneRecordPerKey ==
    \A i, j \in 1..Len(products) :
        (products[i].barcode = products[j].barcode
         /\ products[i].country_code = products[j].country_code) => i = j

\* C5: the returned ProductData does not depend on the cache's writes.  On the
\* directory path it is what the directory's answer alone determines, whatever
\* saveProduct did; on a cache hit it is what the record read determines, and
\* is returned while the usage-statistics update is still outstanding.
C5_ResultIndependentOfCacheWrites ==
    /\ (lastReturn.pc = "done" /\ lastReturn.nFetch = 1) =>
          lastReturn.result =
              Resolve(lastReturn.barcode, lastReturn.fetchRejected).value
    /\ (lastReturn.pc = "done" /\ lastReturn.nLookup = 1 /\ lastReturn.nFetch = 0) =>
          lastReturn.result = <<ShadowResult(lastReturn.cached[1], lastReturn.barcode)>>

\* The last invocation returned a found product from the directory although
\* the analysis insert failed after the product insert had succeeded.
C5_Witness ==
    /\ lastReturn.pc = "done"
    /\ lastReturn.nSave = 1
    /\ lastReturn.saveOutcome = "analysisError"
    /\ lastReturn.result[1].found
    /\ \E i \in 1..Len(products) :
          /\ products[i].barcode = lastReturn.barcode
          /\ Embedded(analyses, products[i].id) = <<>>

\* C6: a directory fetch that fails once and would succeed on the next attempt
\* yields a found result, not 'Lookup failed'.
C6_TransientFailureRetried ==
    (/\ lastReturn.pc = "done"
     /\ lastReturn.fetchRejected
     /\ lastReturn.retryWouldFind) =>
        /\ lastReturn.result[1].found
        /\ lastReturn.result[1].name # Name("Lookup failed")

(***************************************************************************)
(* Properties of App                                                       *)
(***************************************************************************)

C8_RefinedResultShown ==
    (/\ lastEvent.kind = "refined"
     /\ resultScreen # <<>>
     /\ scanType = "product"
     /\ productResult # <<>>
     /\ productResult[1].barcode = lastEvent.product[1].barcode) =>
        /\ Displayed[1].score = lastEvent.refined[1].score
        /\ Displayed[1].verdict = lastEvent.refined[1].verdict

\* C9: when analyzePhoto has thrown during a meal capture or a product-photo
\* capture, the result presented has verdict 'avoid', never 'safe'.
C9_FailedAnalysisIsAvoid ==
    lastEvent.kind \in {"mealAnalysisFailed", "captureAnalysisFailed"} =>
        /\ analysisResult # <<>>
        /\ analysisResult[1].verdict = "avoid"
        /\ (resultScreen # <<>> /\ scanType = "meal") =>
              Displayed[1].verdict = "avoid"

\* C22: an OCR refinement that completes for barcode X leaves the product
\* result as it is when that result is absent or belongs to another
\* barcode, and never changes the current screen or the scan type.
C22_StaleRefinementIgnored ==
    [][\A t \in tasks :
          (t.stage = "refining" /\ tasks' = tasks \ {t}) =>
              /\ currentScreen' = currentScreen
              /\ scanType' = scanType
              /\ (\/ productResult = <<>>
                  \/ productResult[1].barcode # t.product[1].barcode) =>
                     productResult' = productResult]_vars

\* A refinement has succeeded for one barcode while the product result was
\* that of another barcode still waiting for its own refinement
C22_Witness ==
    /\ lastEvent.kind = "refined"
    /\ lastEvent.prev # <<>>
    /\ lastEvent.prev[1].barcode # lastEvent.product[1].barcode
    /\ Truthy(lastEvent.prev[1].needsOCR)
    /\ productResult = lastEvent.prev

\* The neutral placeholder of an incomplete directory response
IsPlaceholder(result) ==
    /\ result.ketoScore = 50
    /\ result.ketoVerdict = "borderline"

\* C24: no cache hit returns the score 50 / verdict 'borderline' that was
\* saved from a directory response needing OCR, and no cached record has
\* source 'ocr' unless an OCR refinement produced its analysis (nothing
\* but lookupProduct writes the cache, so no record has it).
C24_PlaceholderNeverServed ==
    /\ (/\ lastReturn.pc = "done"
        /\ lastReturn.result[1].source = "shadow"
        /\ lastReturn.cached[1].row.confidence_level = "low") =>
          ~IsPlaceholder(lastReturn.result[1])
    /\ \A i \in 1..Len(products) : products[i].source # "ocr"

\* C25: a cache hit on a record saved from a found and complete directory
\* resolution returns the ketoScore, ketoVerdict, ingredients, macros and
\* swapSuggestion that the resolution returned.
C25_CacheHitEqualsResolution ==
    (/\ lastReturn.pc = "done"
     /\ lastReturn.result[1].source = "shadow"
     /\ lastReturn.cached[1].row.confidence_level = "high") =>
        LET first == Answered[lastReturn.barcode].value[1]
            hit == lastReturn.result[1]
        IN /\ hit.ketoScore = first.ketoScore
           /\ hit.ketoVerdict = first.ketoVerdict
           /\ hit.ingredients = first.ingredients
           /\ hit.macros = first.macros
           /\ hit.swapSuggestion = first.swapSuggestion

(***************************************************************************)
(* Properties of calculateProductScore                                     *)
(***************************************************************************)

\* The results computed so far
Scored ==
    (IF scoring.result = <<>> THEN {} ELSE {scoring.result[1]})
    \cup (IF scoring.other.result = <<>> THEN {} ELSE {scoring.other.result[1]})

\* C12: for every ingredient list, the empty one, those of more than 10
\* entries and those whose penalties exceed 100 included,
\* calculateProductScore returns an integer score in 0..100 and the verdict
\* 'safe' iff score >= 80, 'borderline' iff 60 <= score < 80, 'avoid' iff
\* score < 60.
C12_ScoreRangeAndVerdict ==
    \A r \in Scored :
        /\ r.score \in 0..100
        /\ r.verdict \in {"safe", "borderline", "avoid"}
        /\ r.verdict = "safe" <=> r.score >= 80
        /\ r.verdict = "borderline" <=> (r.score >= 60 /\ r.score < 80)
        /\ r.verdict = "avoid" <=> r.score < 60

\* A list of eleven entries whose penalties exceed 100 was scored 0 'avoid'.
C12_Witness ==
    /\ Len(scoring.ingredients) = 11
    /\ scoring.ingredients[11] = S_sugar
    /\ scoring.result # <<>>
    /\ scoring.result[1].score = 0
    /\ scoring.result[1].verdict = "avoid"

\* The penalty each pool ingredient brings: that of the first table entry it
\* includes, once
PoolPenalty(x) ==
    IF x \in {S_sugar, <<"C","a","n","e"," ","S","u","g","a","r"," ">>} THEN 25
    ELSE IF x = <<"w","h","e","a","t"," ","f","l","o","u","r">> THEN 15
    ELSE IF x = <<"h","i","g","h"," ","f","r","u","c","t","o","s","e"," ","c","o","r","n"," ","s","y","r","u","p">> THEN 30
    ELSE IF x = <<"n","a","t","u","r","a","l"," ","f","l","a","v","o","r","s">> THEN 5
    ELSE 0

\* 100 minus the pool penalties of the entries and the count penalty, before
\* the clamp
Unclamped(list) ==
    100 - SumSeq([i \in 1..Len(list) |-> PoolPenalty(list[i])])
        - (IF Len(list) > 10 THEN 10 ELSE 0)

\* C20: below the clamp, the score is 100 minus one first-match penalty per
\* ingredient (and the count penalty), whatever the order of the list; and a
\* second copy of an offending ingredient, not crossing the 10-entry
\* threshold, lowers the score by that ingredient's penalty again.
C20_OrderIndependentNotIdempotent ==
    /\ (scoring.result # <<>> /\ Unclamped(scoring.ingredients) >= 0) =>
          scoring.result[1].score = Unclamped(scoring.ingredients)
    /\ scoring.other.kind = "reordered" =>
          scoring.other.result = scoring.result
    /\ (/\ scoring.other.kind = "copy"
        /\ Len(scoring.other.ingredients) <= 10
        /\ Unclamped(scoring.other.ingredients) >= 0) =>
          scoring.other.result[1].score =
              scoring.result[1].score
              - PoolPenalty(scoring.other.ingredients[Len(scoring.other.ingredients)])

\* 'sugar, water' scored 75, and 50 once sugar is listed a second time.
C20_Witness ==
    /\ scoring.ingredients = <<S_sugar, S_water>>
    /\ scoring.other.kind = "copy"
    /\ scoring.other.ingredients = <<S_sugar, S_water, S_sugar>>
    /\ scoring.result[1].score = 75
    /\ scoring.other.result[1].score = 50

(***************************************************************************)
(* Properties of lookupProductFromAPI                                      *)
(***************************************************************************)

\* carbohydrates_100g - fiber_100g of the answer, absent values counting 0,
\* not below 0
NetCarbsOf(product) ==
    LET n == product.nutriments
        carbs == IF "carbohydrates_100g" \in DOMAIN n THEN n["carbohydrates_100g"] ELSE 0
        fiber == IF "fiber_100g" \in DOMAIN n THEN n["fiber_100g"] ELSE 0
    IN IF carbs - fiber < 0 THEN 0 ELSE carbs - fiber

\* The deduction of the second pass: 30 above 20 g, 15 above 10 g, 5 above 5 g
Deduction(netCarbs) ==
    IF netCarbs > 2000 THEN 30
    ELSE IF netCarbs > 1000 THEN 15
    ELSE IF netCarbs > 500 THEN 5
    ELSE 0

\* C13: on the found-and-complete path, ketoScore is max(0, s - d) with s the
\* score of calculateProductScore on the parsed ingredients and d the
\* deduction for net carbs = max(0, carbohydrates - fiber), which is never
\* negative; ketoVerdict is 'safe' iff ketoScore >= 75, 'borderline' iff
\* 50 <= ketoScore < 75, 'avoid' otherwise.
C13_NetCarbAdjustment ==
    (/\ offLookup.result # <<>>
     /\ offLookup.product.completeness[1] >= 50) =>
        LET r == offLookup.result[1]
            s == calculateProductScore(r.ingredients).score
            d == Deduction(NetCarbsOf(offLookup.product))
        IN /\ r.found
           /\ r.source = "api"
           /\ r.macros.net_carbs >= 0
           /\ NetCarbsOf(offLookup.product) = 0 => r.macros.net_carbs = 0
           /\ r.ketoScore = (IF s - d < 0 THEN 0 ELSE s - d)
           /\ r.ketoVerdict = "safe" <=> r.ketoScore >= 75
           /\ r.ketoVerdict = "borderline" <=> (r.ketoScore >= 50 /\ r.ketoScore < 75)
           /\ r.ketoVerdict = "avoid" <=> r.ketoScore < 50

\* An answer with more fiber than carbohydrates and ingredients scored 75:
\* net carbs 0, no deduction, ketoScore 75 'safe'.
C13_Witness ==
    /\ offLookup.result # <<>>
    /\ offLookup.product.completeness[1] = 100
    /\ DOMAIN offLookup.product.nutriments =
          {"fat_100g", "carbohydrates_100g", "fiber_100g"}
    /\ offLookup.product.nutriments["carbohydrates_100g"] = 2001
    /\ offLookup.product.nutriments["fiber_100g"] = MaxGrams + 500
    /\ offLookup.result[1].macros.net_carbs = 0
    /\ offLookup.result[1].ketoScore = 75
    /\ offLookup.result[1].ketoVerdict = "safe"

\* No resolution in progress, an empty cache
LookupOff ==
    /\ products = <<>>
    /\ analyses = <<>>
    /\ statUpdates = {}
    /\ calls = [c \in CallIds |-> IdleCall]
    /\ lastReturn = IdleCall
    /\ transientFailures = 0

(***************************************************************************)
(* Properties of analyzePhoto and the analyze-food function                *)
(***************************************************************************)

\* What analyzePhoto returned for the current photo, <<>> while it is pending
\* or when it threw
ClientResult ==
    IF vision.client # <<>> /\ ~vision.client[1].threw
    THEN vision.client[1].value ELSE <<>>

\* The body of the function's 200 response for the current photo
FunctionResult ==
    IF vision.function # <<>> /\ vision.function[1].status = 200
    THEN vision.function[1].body ELSE <<>>

\* C14: every result returned by analyzePhoto has an integer score in
\* [0,100] and a verdict among safe, borderline, avoid, unknown, and two
\* returned results with the same score never carry different verdicts.
C14_ScoreAndVerdictWellFormed ==
    /\ ClientResult # <<>> =>
          /\ ClientResult[1].score # <<>>
          /\ ClientResult[1].score[1] \in 0..100
          /\ ClientResult[1].verdict # <<>>
          /\ ClientResult[1].verdict[1] \in {"safe", "borderline", "avoid", "unknown"}
    /\ \A a, b \in vision.returned : a.score = b.score => a.verdict = b.verdict

\* The back end's text is not valid JSON and holds no JSON object
Malformed(answer) == answer.kind \in {"broken", "prose", "empty"}

\* C15: when the back end's response is not valid JSON, or no JSON object
\* can be located in it, analyzePhoto throws and the analyze-food function
\* answers with an error; neither returns a defaulted result.
C15_MalformedResponseFails ==
    (vision.photo > 0 /\ Malformed(vision.answer)) =>
        /\ vision.client # <<>> => vision.client[1].threw
        /\ vision.function # <<>> => vision.function[1].status # 200

\* The minimum confidence among the items whose carb_risk is not 'low', 1.0
\* when there is none
MinRiskyConfidence(foods) ==
    LET risky == {k \in 1..Len(foods) : foods[k].carb_risk # "low"}
    IN IF risky = {} THEN 100
       ELSE CHOOSE c \in {foods[k].confidence : k \in risky} :
                \A k \in risky : c <= foods[k].confidence

\* The foods list of the object the back end answered with, <<>> when the
\* key is absent
AnsweredFoods ==
    IF vision.answer.data.foods = <<>> THEN <<>> ELSE vision.answer.data.foods[1]

\* C16: the plate confidence of a result is the minimum confidence among the
\* items whose carb_risk is not 'low', 1.0 when there is none, and
\* analyzePhoto and the analyze-food function give the same value for the
\* same list.
C16_PlateConfidenceAgrees ==
    /\ ClientResult # <<>> =>
          ClientResult[1].plateConfidence = <<MinRiskyConfidence(AnsweredFoods)>>
    /\ (FunctionResult # <<>> /\ vision.answer.kind \in {"object", "fenced"}) =>
          FunctionResult[1].plateConfidence = <<MinRiskyConfidence(AnsweredFoods)>>
    /\ (ClientResult # <<>> /\ FunctionResult # <<>>) =>
          ClientResult[1].plateConfidence = FunctionResult[1].plateConfidence

(***************************************************************************)
(* Properties of handleCorrections                                         *)
(***************************************************************************)

\* C17: a submission of corrections to a result with score s and verdict v
\* sets the score to min(100, s + 5 * r), r being the number of items
\* removed from the list, and the verdict to 'safe' when v is 'borderline'
\* and the new score is at least 75, leaving v unchanged otherwise.
C17_ScoreAfterCorrections ==
    review.last # <<>> =>
        LET done == review.last[1]
            r == Len(done.foods) - Len(done.updatedFoods)
            expected == IF done.score + (5 * r) < 100 THEN done.score + (5 * r) ELSE 100
        IN /\ review.handler.pc = "idle" => review.currentScore = expected
           /\ review.handler.pc = "idle" =>
                 review.currentVerdict =
                     IF done.verdict = "borderline" /\ expected >= 75
                     THEN "safe" ELSE done.verdict

\* The decisions of a list that name the item
Targeting(corrections, food) ==
    {k \in 1..Len(corrections) : corrections[k].originalFood.name = food.name}

\* C18: the rebuilt list lacks exactly the items a 'removed' decision
\* names, holds the items a 'replaced' decision names with the name
\* substituted and every other field unchanged, and holds every other item
\* unchanged, all in the original relative order; the list on the screen
\* is not modified.
C18_RebuiltList ==
    review.last # <<>> =>
        LET done == review.last[1]
            kept == {k \in 1..Len(done.foods) :
                        \A j \in Targeting(done.corrections, done.foods[k]) :
                            done.corrections[j].action # "removed"}
            Rank(k) == Cardinality({j \in kept : j <= k})
        IN /\ Len(done.updatedFoods) = Cardinality(kept)
           /\ \A k \in kept :
                 LET food == done.foods[k]
                     out == done.updatedFoods[Rank(k)]
                     replaced == {j \in Targeting(done.corrections, food) :
                                     done.corrections[j].action = "replaced"}
                 IN IF replaced = {} THEN out = food
                    ELSE /\ \E j \in replaced :
                               out.name = done.corrections[j].replacementName[1]
                         /\ out.name # food.name
                         /\ out.confidence = food.confidence
                         /\ out.carb_risk = food.carb_risk
           /\ review.foods = done.foods

\* A submission that removed one item, renamed another and kept the renamed
\* one in the rebuilt list
C18_Witness ==
    /\ review.last # <<>>
    /\ \E c \in {review.last[1].corrections[k] :
                    k \in 1..Len(review.last[1].corrections)} : c.action = "removed"
    /\ \E c \in {review.last[1].corrections[k] :
                    k \in 1..Len(review.last[1].corrections)} : c.action = "replaced"
    /\ Len(review.last[1].foods) = 2
    /\ Len(review.last[1].updatedFoods) = 1
    /\ review.last[1].updatedFoods[1].name # S_bread

\* C19: a submission of n decisions issues exactly n inserts, one per
\* decision and in decision order, all of them before the list is rebuilt
\* and before the score or the verdict changes; an insert already issued is
\* never changed or taken back.
C19_InsertsBeforeRebuild ==
    [][/\ Len(insertsIssued') >= Len(insertsIssued)
       /\ SubSeq(insertsIssued', 1, Len(insertsIssued)) = insertsIssued
       /\ (\/ review'.currentScore # review.currentScore
           \/ review'.currentVerdict # review.currentVerdict) =>
              review'.last # review.last
       /\ review'.last # review.last =>
              LET done == review'.last[1]
                  n == Len(done.corrections)
              IN /\ Len(done.issued) = n
                 /\ \A k \in 1..n :
                       /\ done.issued[k].action = done.corrections[k].action
                       /\ done.issued[k].original_label =
                              done.corrections[k].originalFood.name
                       /\ done.issued[k].corrected_label =
                              done.corrections[k].replacementName
                 /\ insertsIssued' = insertsIssued
                 /\ Len(insertsIssued) >= n
                 /\ SubSeq(insertsIssued, Len(insertsIssued) - n + 1,
                           Len(insertsIssued)) = done.issued]_vars

\* A submission of two decisions, a rename followed by a removal, has gone
\* through with its two inserts issued and has changed the score
C19_Witness ==
    /\ review.last # <<>>
    /\ Len(review.last[1].corrections) = 2
    /\ Len(insertsIssued) = 2
    /\ insertsIssued[1].action = "replaced"
    /\ insertsIssued[2].action = "removed"
    /\ review.currentScore = review.last[1].score + 5

\* The table entries equal to the normalized ingredient
EntriesEqualTo(ingredient) ==
    {k \in 1..Len(INGREDIENT_PENALTIES) :
        INGREDIENT_PENALTIES[k].key = Trim(ToLowerCase(ingredient))}

\* C23: no entry of INGREDIENT_PENALTIES is preceded in scan order by an
\* entry that is a substring of it, so a product whose only ingredient is
\* a table entry loses exactly that entry's penalty ('wheat flour' 18,
\* 'high fructose corn syrup' 30).
C23_TableOrderedBySpecificity ==
    (scoring.result # <<>> /\ Len(scoring.ingredients) = 1) =>
        \A k \in EntriesEqualTo(scoring.ingredients[1]) :
            /\ \A j \in 1..(k - 1) :
                  ~Includes(INGREDIENT_PENALTIES[k].key, INGREDIENT_PENALTIES[j].key)
            /\ scoring.result[1].score = 100 - INGREDIENT_PENALTIES[k].penalty
            /\ ParsedIngredient(Trim(ToLowerCase(scoring.ingredients[1]))).reason =
                  INGREDIENT_PENALTIES[k].reason

(***************************************************************************)
(* Properties of calculateMealScore                                        *)
(***************************************************************************)

\* The macros of the worked example, with the default carb limit
ExampleMeal ==
    /\ meal.macros = [net_carbs |-> 8, fat |-> 45, protein |-> 32]
    /\ meal.carbLimit = DefaultCarbLimit

\* C21: for macros {net_carbs: 8, fat: 45, protein: 32} and carb limit 20
\* only the fat-percentage penalty applies, and calculateMealScore returns
\* score 97 with verdict 'safe'.
C21_ExampleMealScore ==
    (ExampleMeal /\ meal.result # <<>>) =>
        /\ CarbLimitPenalty(meal.macros, meal.carbLimit) = 0
        /\ CarbPercentPenalty(meal.macros, meal.carbLimit) = 0
        /\ FatPercentPenalty(meal.macros, meal.carbLimit) > 0
        /\ meal.result[1].score = 97
        /\ meal.result[1].verdict = "safe"

(***************************************************************************)
(* Properties of the usage statistics                                      *)
(***************************************************************************)

\* C26: once the updates of all cache hits on a record have been applied,
\* its scan_count is its initial value plus the number of hits.
C26_ScanCountCountsHits ==
    \A i \in 1..Len(shadowStats.rows) :
        (/\ \A u \in shadowStats.pending : u.id # i
         /\ shadowStats.failed[i] = 0) =>
            shadowStats.rows[i].scan_count =
                shadowStats.initial[i] + shadowStats.hits[i]

(***************************************************************************)
(* Properties of the daily scan quota                                      *)
(***************************************************************************)

\* C27: a capture is started only while getQuotaStatus for the user reports
\* canScan, and no non-pro user completes more than FREE_SCAN_LIMIT scans on
\* one day, whichever way the camera was reached.
C27_NoScanWithoutQuota ==
    /\ quota.last # <<>> => quota.last[1]
    /\ \A d \in DOMAIN quota.completed : quota.completed[d] <= FREE_SCAN_LIMIT

\* C28: when no incrementScanCount call is in flight, getQuotaStatus reports
\* remaining = max(0, FREE_SCAN_LIMIT - n) for the n calls made for the user
\* today; a guest's scans of an earlier day are not part of n.
C28_CountEqualsIncrements ==
    (quota.screen # "off" /\ quota.calls = {}) =>
        getQuotaStatus(quota, StaleSessionUser).remaining =
            Max(0, FREE_SCAN_LIMIT - quota.counted[quota.today])

(***************************************************************************)
(* Properties of repeated and removal-free correction submissions          *)
(***************************************************************************)

\* handleCorrections has run to its end in this step
SubmissionCompletes ==
    /\ review'.handler.pc = "idle"
    /\ \/ review.handler.pc = "logging"
       \/ review.handler.pc = "idle" /\ review'.submissions = review.submissions + 1

\* C29: submitting the same decisions a second time leaves the score and
\* the verdict unchanged, and no decision is logged twice: an item gives at
\* most one removal bonus and one correction event.
C29_ResubmissionIdempotent ==
    [][(/\ SubmissionCompletes
        /\ review.last # <<>>
        /\ review'.last[1].corrections = review.last[1].corrections) =>
           /\ review'.currentScore = review.currentScore
           /\ review'.currentVerdict = review.currentVerdict
           /\ \A i, j \in 1..Len(insertsIssued) :
                  insertsIssued[i] = insertsIssued[j] => i = j]_vars

\* C30: a submission without a 'removed' decision leaves the score and the
\* verdict as they were.
C30_NoRemovalNoChange ==
    (review.last # <<>> /\ RemovedCount(review.last[1].corrections) = 0) =>
        /\ review.currentScore = review.last[1].score
        /\ review.currentVerdict = review.last[1].verdict

(***************************************************************************)
(* Specifications                                                          *)
(***************************************************************************)

RetryInit == retry \in RetryStates /\ LookupOff /\ AppInit /\ ScoringOff /\ OffLookupOff /\ VisionOff /\ CorrectionsOff /\ MealOff /\ StatsOff /\ QuotaOff

SpecRetry == RetryInit /\ [][RetryNext]_vars

LookupStart == LookupInit /\ retry = RetryOff /\ AppInit /\ ScoringOff /\ OffLookupOff /\ VisionOff /\ CorrectionsOff /\ MealOff /\ StatsOff /\ QuotaOff

SpecLookup == LookupStart /\ [][LookupNext]_vars

AppStart == AppInit /\ retry = RetryOff /\ LookupOff /\ ScoringOff /\ OffLookupOff /\ VisionOff /\ CorrectionsOff /\ MealOff /\ StatsOff /\ QuotaOff

SpecApp == AppStart /\ [][AppNext]_vars

ScoringStart == ScoringInit /\ retry = RetryOff /\ LookupOff /\ AppInit /\ OffLookupOff /\ VisionOff /\ CorrectionsOff /\ MealOff /\ StatsOff /\ QuotaOff

SpecScoring == ScoringStart /\ [][ScoringNext]_vars

OffLookupStart == OffLookupInit /\ retry = RetryOff /\ LookupOff /\ AppInit /\ ScoringOff /\ VisionOff /\ CorrectionsOff /\ MealOff /\ StatsOff /\ QuotaOff

SpecOffLookup == OffLookupStart /\ [][OffLookupNext]_vars

VisionStart == VisionInit /\ retry = RetryOff /\ LookupOff /\ AppInit /\ ScoringOff /\ OffLookupOff /\ CorrectionsOff /\ MealOff /\ StatsOff /\ QuotaOff

SpecVision == VisionStart /\ [][VisionNext]_vars

CorrectionsStart == CorrectionsInit /\ retry = RetryOff /\ LookupOff /\ AppInit /\ ScoringOff /\ OffLookupOff /\ VisionOff /\ MealOff /\ StatsOff /\ QuotaOff

SpecCorrections == CorrectionsStart /\ [][CorrectionsNext]_vars

MealStart == MealInit /\ retry = RetryOff /\ LookupOff /\ AppInit /\ ScoringOff /\ OffLookupOff /\ VisionOff /\ CorrectionsOff /\ StatsOff /\ QuotaOff

SpecMeal == MealStart /\ [][MealNext]_vars

StatsStart == StatsInit /\ retry = RetryOff /\ LookupOff /\ AppInit /\ ScoringOff /\ OffLookupOff /\ VisionOff /\ CorrectionsOff /\ MealOff /\ QuotaOff

SpecStats == StatsStart /\ [][StatsNext]_vars

SpecResubmit == CorrectionsStart /\ [][ResubmitNext]_vars

QuotaStart == QuotaInit /\ retry = RetryOff /\ LookupOff /\ AppInit /\ ScoringOff /\ OffLookupOff /\ VisionOff /\ CorrectionsOff /\ MealOff /\ StatsOff

SpecQuota == QuotaStart /\ [][QuotaNext]_vars

====
